---------------------------- MODULE Spec2Model ----------------------------
(***************************************************************************)
(* A model of the hierarchical interval-pruning tape engine of mpr:        *)
(*   - the fused ("v3") pipeline of src/src/v3.cu, and                      *)
(*   - the banked pipeline of src/src/renderable.cu.                        *)
(* Floats are modelled by integers: every operator of the model's opcode    *)
(* set (SQUARE NEG ABS ADD SUB MUL MIN MAX) is exact on integers, so no     *)
(* rounding is involved.  SQRT, DIV and the transcendental opcodes are not  *)
(* part of the model's opcode set.                                          *)
(***************************************************************************)
EXTENDS Integers, Sequences, FiniteSets, TLC

VARIABLES
    opq,        \* interval-operator experiment: inputs and result
    bld,        \* tape-compiler experiment: the DAG and what was built from it
    surf,       \* surface-copy experiment: the images, the surface, the mode
    cls,        \* classification experiment: the root interval and the verdict
    spz,        \* specialization experiment: one tile, then one of its subtiles
    cpt,        \* compaction experiment: one tile list between two stages
    chb,        \* choice-buffer experiment: one forward pass over MIN/MAX clauses
    geo,        \* geometry experiment: a voxel, its point and the regions of its tiles
    scen,       \* which expression the blob was built from
    view,       \* the view of the render call under way
    phase,      \* "off" (no blob), "idle", "tiles", "voxels", "done"
    tape_length, tape_data, tape_index,     \* v3_blob_t
    tiles, filled,                          \* stages[i].tiles, stages[i].filled
    count, stage,                           \* locals of render_v3_blob
    wk,         \* the threads of the kernel under way
    err,        \* "none", or how the process has died
    normals,    \* v3_blob_t normals
    claimed,    \* history: the values atomicAdd(tape_index) has returned
    log,        \* history: per finished stage, chunks claimed and active tiles
    renders,    \* history: the calls of render_v3_blob so far
    shots,      \* history: per view, the images that the renders under it left
    r3d         \* the Renderable3D of the banked pipeline

opsVars == <<opq, bld, surf, cls, spz, cpt, chb, geo>>
v3Vars == <<scen, view, phase, tape_length, tape_data, tape_index, tiles, filled,
            count, stage, wk, err, normals, claimed, log, renders, shots>>
vars == <<opsVars, v3Vars, r3d>>

-----------------------------------------------------------------------------
(* Bounds of the model *)

\* interval end points and sample points of the operator experiment
MaxVal == 2

-----------------------------------------------------------------------------
(* Interval arithmetic (gpu_interval.hpp is not part of src/; modelled     *)
(* from section 4.1: closed intervals, inclusion monotonic, sound)         *)

Min2(a, b) == IF a <= b THEN a ELSE b
Max2(a, b) == IF a >= b THEN a ELSE b
AbsV(a) == IF a < 0 THEN -a ELSE a

Interval(l, u) == <<l, u>>
lower(i) == i[1]
upper(i) == i[2]
Degenerate(v) == <<v, v>>

IAdd(a, b) == <<a[1] + b[1], a[2] + b[2]>>
ISub(a, b) == <<a[1] - b[2], a[2] - b[1]>>
INeg(a) == <<-a[2], -a[1]>>
IMul(a, b) ==
    LET p1 == a[1] * b[1]
        p2 == a[1] * b[2]
        p3 == a[2] * b[1]
        p4 == a[2] * b[2]
    IN <<Min2(Min2(p1, p2), Min2(p3, p4)), Max2(Max2(p1, p2), Max2(p3, p4))>>
ISquare(a) ==
    IF a[1] >= 0 THEN <<a[1] * a[1], a[2] * a[2]>>
    ELSE IF a[2] <= 0 THEN <<a[2] * a[2], a[1] * a[1]>>
    ELSE <<0, Max2(a[1] * a[1], a[2] * a[2])>>
IAbs(a) ==
    IF a[1] >= 0 THEN a
    ELSE IF a[2] <= 0 THEN <<-a[2], -a[1]>>
    ELSE <<0, Max2(-a[1], a[2])>>
IMin(a, b) == <<Min2(a[1], b[1]), Min2(a[2], b[2])>>
IMax(a, b) == <<Max2(a[1], b[1]), Max2(a[2], b[2])>>

-----------------------------------------------------------------------------
(* Opcodes *)

UnaryOps == {"OP_SQUARE", "OP_NEG", "OP_ABS"}
BinaryOps == {"OP_ADD", "OP_MUL", "OP_MIN", "OP_MAX", "OP_SUB"}
ModelOps == UnaryOps \cup BinaryOps

\* the value of an operator at a point
PointOp(op, x, y) ==
    CASE op = "OP_SQUARE" -> x * x
      [] op = "OP_NEG" -> -x
      [] op = "OP_ABS" -> AbsV(x)
      [] op = "OP_ADD" -> x + y
      [] op = "OP_MUL" -> x * y
      [] op = "OP_MIN" -> Min2(x, y)
      [] op = "OP_MAX" -> Max2(x, y)
      [] op = "OP_SUB" -> x - y

\* a faulty case: intervals that touch count as decided
MinTouching(lhs, rhs) ==
    IF upper(lhs) <= lower(rhs) THEN [v |-> lhs, choice |-> 1]
    ELSE IF upper(rhs) <= lower(lhs) THEN [v |-> rhs, choice |-> 2]
    ELSE [v |-> IMin(lhs, rhs), choice |-> 0]

\* case OP_MIN of intervalOp
MinCase(lhs, rhs) ==
    IF upper(lhs) < lower(rhs) THEN [v |-> lhs, choice |-> 1]
    ELSE IF upper(rhs) < lower(lhs) THEN [v |-> rhs, choice |-> 2]
    ELSE [v |-> IMin(lhs, rhs), choice |-> 0]

\* renderable.cu intervalOp: returns the interval and the choice code
\* (the caller initialises choice to 0)
intervalOp(op, lhs, rhs) ==
    CASE op = "OP_SQUARE" -> [v |-> ISquare(lhs), choice |-> 0]
      [] op = "OP_NEG" -> [v |-> INeg(lhs), choice |-> 0]
      [] op = "OP_ADD" -> [v |-> IAdd(lhs, rhs), choice |-> 0]
      [] op = "OP_MUL" -> [v |-> IMul(lhs, rhs), choice |-> 0]
      [] op = "OP_MIN" -> MinCase(lhs, rhs)
      [] op = "OP_MAX" ->
            IF lower(lhs) > upper(rhs) THEN [v |-> lhs, choice |-> 1]
            ELSE IF lower(rhs) > upper(lhs) THEN [v |-> rhs, choice |-> 2]
            ELSE [v |-> IMax(lhs, rhs), choice |-> 0]
      [] op = "OP_SUB" -> [v |-> ISub(lhs, rhs), choice |-> 0]
      [] OTHER -> [v |-> <<0, 0>>, choice |-> 0]


\* lib/renderable.hpp walkI, the switch on c.opcode for one clause: was is
\* what regs[c.out] and choices[choice_index] held before
walkIOp(op, LHS, RHS, was) ==
    CASE op = "OP_SQUARE" -> [was EXCEPT !.v = ISquare(LHS)]
      [] op = "OP_NEG" -> [was EXCEPT !.v = INeg(LHS)]
      [] op = "OP_ADD" -> [was EXCEPT !.v = IAdd(LHS, RHS)]
      [] op = "OP_MUL" -> [was EXCEPT !.v = IMul(LHS, RHS)]
      [] op = "OP_MIN" ->
            IF upper(LHS) < lower(RHS) THEN [v |-> LHS, choice |-> 1]
            ELSE IF upper(RHS) < lower(LHS) THEN [v |-> RHS, choice |-> 2]
            ELSE [v |-> IMin(LHS, RHS), choice |-> 0]
      [] op = "OP_MAX" ->
            IF lower(LHS) > upper(RHS) THEN [v |-> LHS, choice |-> 1]
            ELSE IF lower(RHS) > upper(LHS) THEN [v |-> RHS, choice |-> 2]
            ELSE [v |-> IMax(LHS, RHS), choice |-> 0]
      [] op = "OP_SUB" -> [was EXCEPT !.v = ISub(LHS, RHS)]
      [] OTHER -> was

-----------------------------------------------------------------------------
(* Expression DAGs: the input of the tape compilers.  A DAG is a sequence  *)
(* of nodes in topological order; lhs and rhs are positions in the         *)
(* sequence, 0 for "no operand".                                            *)

Node(op, lhs, rhs, value) == [op |-> op, lhs |-> lhs, rhs |-> rhs, value |-> value]
NConst(v) == Node("CONSTANT", 0, 0, v)
NVar(a) == Node(a, 0, 0, 0)
NUn(op, l) == Node(op, l, 0, 0)
NBin(op, l, r) == Node(op, l, r, 0)

AxisOps == <<"VAR_X", "VAR_Y", "VAR_Z">>
CommutativeOps == {"OP_ADD", "OP_MUL", "OP_MIN", "OP_MAX"}
NonCommutativeOps == {"OP_SUB"}
\* the opcodes of the last case of the switch of build_v3_blob
UnsupportedOps == {"INVALID", "OP_TAN", "OP_RECIP", "OP_ATAN2", "OP_POW", "OP_NTH_ROOT",
                   "OP_MOD", "OP_NANFILL", "OP_COMPARE", "VAR_FREE", "CONST_VAR",
                   "ORACLE", "LAST_OP"}

-----------------------------------------------------------------------------
(* The fused (v3) clause format.  clause.hpp is not part of src/: a word   *)
(* is modelled by its fields OP, I_LHS, I_RHS, I_OUT, IMM (JUMP_TARGET for *)
(* a JUMP) and, for the start word, the three axis bytes.                   *)

Word(op, lhs, rhs, out, imm) ==
    [op |-> op, lhs |-> lhs, rhs |-> rhs, out |-> out, imm |-> imm, ax |-> <<0, 0, 0>>]
OP0 == "0"
StartWord(ax) == [op |-> OP0, lhs |-> 0, rhs |-> 0, out |-> 0, imm |-> 0, ax |-> ax]
EndWord(out) == Word(OP0, 0, 0, out, 0)
JumpWord(target) == Word("GPU_OP_JUMP", 0, 0, 0, target)
\* a word of device memory that nothing has written
Junk == Word("JUNK", 0, 0, 0, 0)

\* op >= GPU_OP_MIN_LHS_IMM && op <= GPU_OP_MAX_LHS_RHS
HasChoiceOps == {"GPU_OP_MIN_LHS_IMM", "GPU_OP_MIN_LHS_RHS",
                 "GPU_OP_MAX_LHS_IMM", "GPU_OP_MAX_LHS_RHS"}

GpuName(op, form) ==
    "GPU_" \o op \o form

-----------------------------------------------------------------------------
(* build_v3_blob: the tape compiler of the fused pipeline                   *)

\* last_used[h]: the last non-constant node that names h as an operand
LastUsed(dag, h) ==
    LET users == {c \in 1..Len(dag) :
                    dag[c].op # "CONSTANT" /\ (dag[c].lhs = h \/ dag[c].rhs = h)}
    IN IF users = {} THEN 0 ELSE CHOOSE c \in users : \A d \in users : d <= c

AxisNode(dag, i) ==
    LET ns == {c \in 1..Len(dag) : dag[c].op = AxisOps[i]}
    IN IF ns = {} THEN 0 ELSE CHOOSE c \in ns : TRUE

\* getSlot: pops the free list, else takes num_slots++ (a uint8_t); taken
\* counts the slots that the counter has handed out
getSlot(st, id) ==
    IF Len(st.free) > 0
    THEN [st EXCEPT !.bound = [@ EXCEPT ![id] = st.free[Len(st.free)]],
                    !.free = SubSeq(st.free, 1, Len(st.free) - 1),
                    !.out = st.free[Len(st.free)]]
    ELSE [st EXCEPT !.bound = [@ EXCEPT ![id] = st.num_slots],
                    !.num_slots = (st.num_slots + 1) % 256,
                    !.taken = @ + 1,
                    !.out = st.num_slots]

\* get_reg: the slot bound to a node, 0 when there is none
get_reg(st, id) == IF id # 0 /\ st.bound[id] # -1 THEN st.bound[id] ELSE 0

\* a release at every reader, not only at the last one
ReleaseAtOnce(dag, st, c, h) ==
    IF h # 0 /\ dag[h].op # "CONSTANT" /\ st.bound[h] # -1
    THEN [st EXCEPT !.free = Append(@, st.bound[h]),
                    !.bound = [@ EXCEPT ![h] = -1]]
    ELSE st

\* "Release slots if this was their last use", for one operand h of node c
ReleaseOne(dag, st, c, h) ==
    IF h # 0 /\ dag[h].op # "CONSTANT" /\ LastUsed(dag, h) = c
    THEN IF st.bound[h] # -1
         THEN [st EXCEPT !.free = Append(@, st.bound[h]),
                         !.bound = [@ EXCEPT ![h] = -1]]
         \* find() returned end(): what itr->second reads there is pushed
         ELSE [st EXCEPT !.ub = TRUE, !.free = Append(@, st.junk)]
    ELSE st

\* the clause of node c, before its output slot is chosen
ClauseOf(dag, st, c) ==
    LET n == dag[c]
        lc == n.lhs # 0 /\ dag[n.lhs].op = "CONSTANT"
        rc == n.rhs # 0 /\ dag[n.rhs].op = "CONSTANT"
    IN IF n.op \in UnaryOps
       THEN Word(GpuName(n.op, "_LHS"), get_reg(st, n.lhs), 0, 0, 0)
       ELSE IF n.op \in CommutativeOps
       THEN IF lc THEN Word(GpuName(n.op, "_LHS_IMM"), get_reg(st, n.rhs), 0, 0,
                            dag[n.lhs].value)
            ELSE IF rc THEN Word(GpuName(n.op, "_LHS_IMM"), get_reg(st, n.lhs), 0, 0,
                                 dag[n.rhs].value)
            ELSE Word(GpuName(n.op, "_LHS_RHS"), get_reg(st, n.lhs),
                      get_reg(st, n.rhs), 0, 0)
       ELSE IF n.op \in UnsupportedOps
       THEN Word(OP0, 0, 0, 0, 0)   \* "Unimplemented opcode" is printed; clause = 0
       ELSE IF lc THEN Word(GpuName(n.op, "_IMM_RHS"), 0, get_reg(st, n.rhs), 0,
                            dag[n.lhs].value)
            ELSE IF rc THEN Word(GpuName(n.op, "_LHS_IMM"), get_reg(st, n.lhs), 0, 0,
                                 dag[n.rhs].value)
            ELSE Word(GpuName(n.op, "_LHS_RHS"), get_reg(st, n.lhs),
                      get_reg(st, n.rhs), 0, 0)

RECURSIVE BindAxes(_, _, _)
BindAxes(dag, st, i) ==
    IF i > 3 THEN st
    ELSE IF AxisNode(dag, i) # 0
         THEN LET s2 == getSlot(st, AxisNode(dag, i))
              IN BindAxes(dag, [s2 EXCEPT !.ax = [@ EXCEPT ![i] = s2.out]], i + 1)
         ELSE BindAxes(dag, st, i + 1)

\* the body of the loop over ordered, for node c
EmitClause(dag, st, c) ==
    IF dag[c].op = "CONSTANT" \/ dag[c].op \in {"VAR_X", "VAR_Y", "VAR_Z"}
    THEN st
    ELSE LET cl == ClauseOf(dag, st, c)
             r1 == ReleaseOne(dag, st, c, dag[c].lhs)
             r2 == ReleaseOne(dag, r1, c, dag[c].rhs)
             s3 == getSlot(r2, c)
         IN [s3 EXCEPT !.flat = Append(@, [cl EXCEPT !.out = s3.out])]

\* the loop over ordered, from node c on
RECURSIVE EmitClauses(_, _, _)
EmitClauses(dag, st, c) ==
    IF c > Len(dag) THEN st
    ELSE IF dag[c].op = "CONSTANT" \/ dag[c].op \in {"VAR_X", "VAR_Y", "VAR_Z"}
         THEN EmitClauses(dag, st, c + 1)
         ELSE LET cl == ClauseOf(dag, st, c)
                  r1 == ReleaseOne(dag, st, c, dag[c].lhs)
                  r2 == ReleaseOne(dag, r1, c, dag[c].rhs)
                  s3 == getSlot(r2, c)
              IN EmitClauses(dag,
                             [s3 EXCEPT !.flat = Append(@, [cl EXCEPT !.out = s3.out])],
                             c + 1)

\* free_slots, bound_slots and num_slots before the first getSlot
NoSlots(dag) ==
    [free |-> <<>>, bound |-> [i \in 1..Len(dag) |-> -1], num_slots |-> 1,
     taken |-> 0, out |-> 0, ax |-> <<0, 0, 0>>, flat |-> <<>>, ub |-> FALSE,
     junk |-> 0]

\* flat once the loop has ended: start word, clauses, end word
FlatOf(dag, st) ==
    <<StartWord(st.ax)>> \o st.flat \o <<EndWord(get_reg(st, Len(dag)))>>

\* the root tape
build_v3_blob(dag) ==
    LET st1 == BindAxes(dag, NoSlots(dag), 1)
        st2 == EmitClauses(dag, st1, 1)
    IN [flat |-> FlatOf(dag, st2),
        num_slots |-> st2.num_slots,
        taken |-> st2.taken,
        ub |-> st2.ub]


-----------------------------------------------------------------------------
(* Program constants and the scaled-down geometry                           *)

\* Interval slots[128]
NumSlots == 128
\* words per chunk of the subtape pool (64 in the program)
SUBTAPE_CHUNK_SIZE == 4
\* chunks of tape_data (about 65536 in the program)
NUM_SUBTAPES == 8
\* subdivision per axis between stages (4 in the program)
Subdiv == 2
\* tiles per side of the first stage
Tps0 == 1
\* tile stages before the voxel stage (3 in the program)
NumTileStages == 2

RECURSIVE Pow(_, _)
Pow(b, e) == IF e = 0 THEN 1 ELSE b * Pow(b, e - 1)
\* tiles per side of stage i; level NumTileStages is the image
LevelSize(i) == Tps0 * Pow(Subdiv, i)
\* voxels per side of the image
ImageSize == LevelSize(NumTileStages)
TapeWords == NUM_SUBTAPES * SUBTAPE_CHUNK_SIZE

unpack(pos, tps) ==
    [x |-> pos % tps, y |-> (pos \div tps) % tps, z |-> (pos \div tps) \div tps,
     w |-> pos % (tps * tps)]

\* The m matrix is a uniform scale by ImageSize (one voxel is two units
\* wide) followed by an integer translation; the projective row is 0 0 0 1.
\* v3_calculate_intervals: the region of a tile
TileLo(p, tps) == (2 * p * ImageSize) \div tps - ImageSize
TileIntervals(pos, tps, m) ==
    LET u == unpack(pos, tps)
    IN <<Interval(TileLo(u.x, tps) + m[1], TileLo(u.x + 1, tps) + m[1]),
         Interval(TileLo(u.y, tps) + m[2], TileLo(u.y + 1, tps) + m[2]),
         Interval(TileLo(u.z, tps) + m[3], TileLo(u.z + 1, tps) + m[3])>>

\* v3_calculate_voxels: the centre of voxel (px, py, pz)
VoxelCentre(p) == 2 * p + 1 - ImageSize
VoxelPoint(px, py, pz, m) ==
    <<VoxelCentre(px) + m[1], VoxelCentre(py) + m[2], VoxelCentre(pz) + m[3]>>

-----------------------------------------------------------------------------
(* v3_eval_tiles_i, first half: interval evaluation of a tape               *)

\* min and max of gpu_interval.hpp with the choice output (section 4.1)
IMinC(a, b) ==
    IF upper(a) < lower(b) THEN [v |-> a, choice |-> 1]
    ELSE IF upper(b) < lower(a) THEN [v |-> b, choice |-> 2]
    ELSE [v |-> IMin(a, b), choice |-> 0]
IMaxC(a, b) ==
    IF lower(a) > upper(b) THEN [v |-> a, choice |-> 1]
    ELSE IF lower(b) > upper(a) THEN [v |-> b, choice |-> 2]
    ELSE [v |-> IMax(a, b), choice |-> 0]

\* one clause of the interval switch: the value of `out` and the choice
ClauseI(d, slots) ==
    LET lhs == slots[d.lhs]
        rhs == slots[d.rhs]
        imm == Degenerate(d.imm)
        plain(v) == [v |-> v, choice |-> 0]
    IN CASE d.op = "GPU_OP_SQUARE_LHS" -> plain(ISquare(lhs))
         [] d.op = "GPU_OP_NEG_LHS" -> plain(INeg(lhs))
         [] d.op = "GPU_OP_ABS_LHS" -> plain(IAbs(lhs))
         [] d.op = "GPU_OP_ADD_LHS_IMM" -> plain(IAdd(lhs, imm))
         [] d.op = "GPU_OP_ADD_LHS_RHS" -> plain(IAdd(lhs, rhs))
         [] d.op = "GPU_OP_MUL_LHS_IMM" -> plain(IMul(lhs, imm))
         [] d.op = "GPU_OP_MUL_LHS_RHS" -> plain(IMul(lhs, rhs))
         [] d.op = "GPU_OP_MIN_LHS_IMM" -> IMinC(lhs, imm)
         [] d.op = "GPU_OP_MIN_LHS_RHS" -> IMinC(lhs, rhs)
         [] d.op = "GPU_OP_MAX_LHS_IMM" -> IMaxC(lhs, imm)
         [] d.op = "GPU_OP_MAX_LHS_RHS" -> IMaxC(lhs, rhs)
         [] d.op = "GPU_OP_SUB_LHS_IMM" -> plain(ISub(lhs, imm))
         [] d.op = "GPU_OP_SUB_IMM_RHS" -> plain(ISub(imm, rhs))
         [] d.op = "GPU_OP_SUB_LHS_RHS" -> plain(ISub(lhs, rhs))
         [] d.op = "GPU_OP_COPY_IMM" -> plain(imm)
         [] d.op = "GPU_OP_COPY_LHS" -> plain(lhs)
         [] d.op = "GPU_OP_COPY_RHS" -> plain(rhs)

\* slots[tape_data[1..3]] = values: the axis bytes of the root start word
LoadAxes(td, vals, junk) ==
    LET s0 == [i \in 0..(NumSlots - 1) |-> junk]
        s1 == [s0 EXCEPT ![td[0].ax[1]] = vals[1]]
        s2 == [s1 EXCEPT ![td[0].ax[2]] = vals[2]]
    IN [s2 EXCEPT ![td[0].ax[3]] = vals[3]]

\* a faulty flag: any MIN/MAX clause counts as a choice made
AnyClause(any, c) == TRUE

\* line 152: has_any_choice |= (c != 0)
AnyChoice(any, c) == any \/ c # 0

\* the forward loop: data is the index of the word read last
RECURSIVE FwdI(_, _, _, _, _)
FwdI(td, data, slots, choices, any) ==
    LET d == td[data + 1]
    IN IF d.op = OP0
       THEN [slots |-> slots, choices |-> choices, has_any_choice |-> any,
             data |-> data + 1]
       ELSE IF d.op = "GPU_OP_JUMP"
       THEN FwdI(td, data + 1 + d.imm, slots, choices, any)
       ELSE LET r == ClauseI(d, slots)
            IN FwdI(td, data + 1, [slots EXCEPT ![d.out] = r.v],
                    IF d.op \in HasChoiceOps THEN Append(choices, r.choice)
                    ELSE choices,
                    IF d.op \in HasChoiceOps THEN AnyChoice(any, r.choice) ELSE any)

\* interval evaluation of the tape at handle `tape` over the region vals
EvalI(td, tape, vals, junk) ==
    LET f == FwdI(td, tape, LoadAxes(td, vals, junk), <<>>, FALSE)
    IN [result |-> f.slots[td[f.data].out], choices |-> f.choices,
        has_any_choice |-> f.has_any_choice, data |-> f.data]

-----------------------------------------------------------------------------
(* v3_eval_voxels_f: point evaluation of a tape                              *)

ClauseF(d, slots) ==
    LET lhs == slots[d.lhs]
        rhs == slots[d.rhs]
        imm == d.imm
    IN CASE d.op = "GPU_OP_SQUARE_LHS" -> lhs * lhs
         [] d.op = "GPU_OP_NEG_LHS" -> -lhs
         [] d.op = "GPU_OP_ABS_LHS" -> AbsV(lhs)
         [] d.op = "GPU_OP_ADD_LHS_IMM" -> lhs + imm
         [] d.op = "GPU_OP_ADD_LHS_RHS" -> lhs + rhs
         [] d.op = "GPU_OP_MUL_LHS_IMM" -> lhs * imm
         [] d.op = "GPU_OP_MUL_LHS_RHS" -> lhs * rhs
         [] d.op = "GPU_OP_MIN_LHS_IMM" -> Min2(lhs, imm)
         [] d.op = "GPU_OP_MIN_LHS_RHS" -> Min2(lhs, rhs)
         [] d.op = "GPU_OP_MAX_LHS_IMM" -> Max2(lhs, imm)
         [] d.op = "GPU_OP_MAX_LHS_RHS" -> Max2(lhs, rhs)
         [] d.op = "GPU_OP_SUB_LHS_IMM" -> lhs - imm
         [] d.op = "GPU_OP_SUB_IMM_RHS" -> imm - rhs
         [] d.op = "GPU_OP_SUB_LHS_RHS" -> lhs - rhs
         [] d.op = "GPU_OP_COPY_IMM" -> imm
         [] d.op = "GPU_OP_COPY_LHS" -> lhs
         [] d.op = "GPU_OP_COPY_RHS" -> rhs

RECURSIVE FwdF(_, _, _)
FwdF(td, data, slots) ==
    LET d == td[data + 1]
    IN IF d.op = OP0 THEN slots[d.out]
       ELSE IF d.op = "GPU_OP_JUMP" THEN FwdF(td, data + 1 + d.imm, slots)
       ELSE FwdF(td, data + 1, [slots EXCEPT ![d.out] = ClauseF(d, slots)])

\* the value of the tape at handle `tape` at the point pt
EvalF(td, tape, pt, junk) == FwdF(td, tape, LoadAxes(td, pt, junk))


-----------------------------------------------------------------------------
(* v3_eval_tiles_i, second half: the backward pass ("tape pushing")         *)

\* the slots that the array active marks
SlotsOn(active) == {i \in DOMAIN active : active[i]}

\* a faulty loop: the index moves only for the clauses of active slots
ActiveChoiceIndex(choice_index, has_choice, is_active) ==
    IF has_choice /\ is_active THEN choice_index - 1 ELSE choice_index

\* lines 250-252: choice_index -= has_choice, ahead of the test of active
NextChoiceIndex(choice_index, has_choice, is_active) ==
    IF has_choice THEN choice_index - 1 ELSE choice_index

\* a faulty loop: a copy of a slot onto itself is written like any other
CopiesAll(d, choice) == FALSE

\* lines 307-309, 317-319: the selected slot is the output slot
SameSlot(d, choice) ==
    \/ choice = 1 /\ d.lhs = d.out
    \/ choice = 2 /\ d.rhs # 0 /\ d.rhs = d.out

\* What the backward loop does with the clauses of the parent tape, in the
\* order it meets them: a clause of an inactive slot is passed over; every
\* other clause is an event, either a word to write or an elided clause.
RECURSIVE BwdEvents(_, _, _, _, _)
BwdEvents(td, data, active, choices, choice_index) ==
    LET d == td[data - 1]
        has_choice == d.op \in HasChoiceOps
        ci == NextChoiceIndex(choice_index, has_choice, active[d.out])
        choice == IF has_choice THEN choices[ci + 1] ELSE 0
        off == [active EXCEPT ![d.out] = FALSE]
        on(a, i) == [a EXCEPT ![i] = TRUE]
        act == IF choice = 0
               THEN LET a1 == IF d.lhs # 0 THEN on(off, d.lhs) ELSE off
                    IN IF d.rhs # 0 THEN on(a1, d.rhs) ELSE a1
               ELSE IF choice = 1 THEN on(off, d.lhs)
               ELSE IF d.rhs # 0 THEN on(off, d.rhs) ELSE off
        elide == SameSlot(d, choice)
        w == IF choice = 0 THEN d
             ELSE IF choice = 1 THEN [d EXCEPT !.op = "GPU_OP_COPY_LHS"]
             ELSE IF d.rhs # 0 THEN [d EXCEPT !.op = "GPU_OP_COPY_RHS"]
             ELSE [d EXCEPT !.op = "GPU_OP_COPY_IMM"]
        \* history: the MIN/MAX clause at data - 1 has left the index at ci
        seen == IF has_choice
                THEN <<[at |-> data - 1, ci |-> ci, active |-> active[d.out]]>>
                ELSE <<>>
    IN IF d.op = OP0
       THEN [evs |-> <<>>, data |-> data - 1, ci |-> choice_index, met |-> <<>>]
       ELSE IF d.op = "GPU_OP_JUMP"
       THEN BwdEvents(td, data - 1 + d.imm, active, choices, choice_index)
       ELSE IF ~active[d.out]
       THEN LET rest == BwdEvents(td, data - 1, active, choices, ci)
            IN [rest EXCEPT !.met = seen \o @]
       ELSE LET rest == BwdEvents(td, data - 1, act, choices, ci)
            IN [evs |-> <<[elide |-> elide, w |-> w, from |-> d, choice |-> choice,
                           was |-> SlotsOn(active), lit |-> SlotsOn(act)]>>
                          \o rest.evs,
                data |-> rest.data, ci |-> rest.ci, met |-> seen \o rest.met]

\* the MIN/MAX clauses of the tape at handle data, in the order of the
\* forward loop
RECURSIVE ChoiceSites(_, _)
ChoiceSites(td, data) ==
    LET d == td[data + 1]
    IN IF d.op = OP0 THEN <<>>
       ELSE IF d.op = "GPU_OP_JUMP" THEN ChoiceSites(td, data + 1 + d.imm)
       ELSE (IF d.op \in HasChoiceOps THEN <<data + 1>> ELSE <<>>)
            \o ChoiceSites(td, data + 1)

\* the events of specialising the tape that the forward pass e walked
SpecEvents(td, e) ==
    BwdEvents(td, e.data, [i \in 0..(NumSlots - 1) |-> i = td[e.data].out],
              e.choices, Len(e.choices))

\* a faulty claim: a plain read that leaves the counter where it was
StuckTapeIndex(ti) == ti

\* atomicAdd(tape_index, SUBTAPE_CHUNK_SIZE): the new value of the counter
NextTapeIndex(ti) == ti + SUBTAPE_CHUNK_SIZE

\* assert(out_index + out_offset < NUM_SUBTAPES * SUBTAPE_CHUNK_SIZE)
ClaimAsserts(out_index) == out_index + SUBTAPE_CHUNK_SIZE < TapeWords
\* every word of the chunk is inside tape_data
ChunkInBounds(out_index) == out_index + SUBTAPE_CHUNK_SIZE <= TapeWords

\* the loop body for the events that need no new chunk: stops in front of
\* the event whose --out_offset reaches 0, or when no event is left
RECURSIVE WriteRun(_, _, _, _)
WriteRun(td, out_index, out_offset, evs) ==
    IF evs = <<>> \/ out_offset - 1 = 0
    THEN [td |-> td, out_offset |-> out_offset, evs |-> evs]
    ELSE IF Head(evs).elide
    THEN WriteRun(td, out_index, out_offset, Tail(evs))
    ELSE WriteRun([td EXCEPT ![out_index + out_offset - 1] = Head(evs).w],
                  out_index, out_offset - 1, Tail(evs))

\* the first chunk: the end word of the parent goes to its last word
FirstChunk(td, out_index, endw, evs) ==
    WriteRun([td EXCEPT ![out_index + SUBTAPE_CHUNK_SIZE - 1] = endw],
             out_index, SUBTAPE_CHUNK_SIZE - 1, evs)

\* a faulty link: the backward JUMP goes one chunk below the thread's own
LinkAstray(td, prev_index, out_index, evs) ==
    LET at == out_index + SUBTAPE_CHUNK_SIZE - 1
        delta == (prev_index - SUBTAPE_CHUNK_SIZE) - at
        t1 == [td EXCEPT ![at] = JumpWord(delta),
                         ![prev_index - SUBTAPE_CHUNK_SIZE] = JumpWord(-delta)]
    IN IF Head(evs).elide
       THEN WriteRun(t1, out_index, SUBTAPE_CHUNK_SIZE - 1, Tail(evs))
       ELSE WriteRun([t1 EXCEPT ![at - 1] = Head(evs).w],
                     out_index, SUBTAPE_CHUNK_SIZE - 2, Tail(evs))

\* a faulty link: the old chunk is not told where the tape goes on
LinkForward(td, prev_index, out_index, evs) ==
    LET at == out_index + SUBTAPE_CHUNK_SIZE - 1
        delta == prev_index - at
        t1 == [td EXCEPT ![at] = JumpWord(delta)]
    IN IF Head(evs).elide
       THEN WriteRun(t1, out_index, SUBTAPE_CHUNK_SIZE - 1, Tail(evs))
       ELSE WriteRun([t1 EXCEPT ![at - 1] = Head(evs).w],
                     out_index, SUBTAPE_CHUNK_SIZE - 2, Tail(evs))

\* a further chunk: the two JUMP words, then the event that asked for it
LinkChunk(td, prev_index, out_index, evs) ==
    LET at == out_index + SUBTAPE_CHUNK_SIZE - 1
        delta == prev_index - at
        t1 == [td EXCEPT ![at] = JumpWord(delta), ![prev_index] = JumpWord(-delta)]
    IN IF Head(evs).elide
       THEN WriteRun(t1, out_index, SUBTAPE_CHUNK_SIZE - 1, Tail(evs))
       ELSE WriteRun([t1 EXCEPT ![at - 1] = Head(evs).w],
                     out_index, SUBTAPE_CHUNK_SIZE - 2, Tail(evs))

\* handle of the finished subtape: where the start word goes
HeadOf(out_index, out_offset) == out_index + out_offset - 1


-----------------------------------------------------------------------------
(* One thread of v3_eval_tiles_i as a step function.  The shared memory of  *)
(* a kernel is the record g:                                                 *)
(*   td  tape_data        ti  *tape_index      img  stages[i].filled        *)
(*   tl  stages[i].tiles  wk  the threads      err  how the run has died    *)
(*   claimed  the out_index values that atomicAdd has returned              *)
(* A thread takes a step at each access to memory that other threads        *)
(* write: the read of the image, the atomicMax, each atomicAdd.  What it    *)
(* does to its own tile and its own chunks rides on the step before.        *)

Tile(position, tape, next) == [position |-> position, tape |-> tape, next |-> next]

\* history of the evaluation of an Ambiguous tile: the MIN/MAX clauses that
\* the forward pass met and the codes it recorded; whether a backward pass
\* was made; the MIN/MAX clauses that it met and where each left the index,
\* the index at the end, and what became of each clause of an active slot
NoHist == [sites |-> <<>>, choices |-> <<>>, passed |-> FALSE, met |-> <<>>, ci |-> 0,
           acts |-> <<>>]

NoLocals == [pos |-> -1, out_index |-> 0, out_offset |-> 0, evs |-> <<>>,
             endw |-> Junk, startw |-> Junk, hist |-> NoHist]
Thread(pc, verdict, parent, loc) ==
    [pc |-> pc, verdict |-> verdict, parent |-> parent, pos |-> loc.pos,
     out_index |-> loc.out_index, out_offset |-> loc.out_offset, evs |-> loc.evs,
     endw |-> loc.endw, startw |-> loc.startw, hist |-> loc.hist]

MaskedAtOrBelow(img, pos) == img[pos.w] >= pos.z

\* "If this tile is completely masked by the image": image[pos.w] > pos.z
MaskedBy(img, pos) == img[pos.w] > pos.z

\* lines 195-213: the tests on the root interval and on the depth image, in
\* the order of the kernel
v3_verdict(result, hidden) ==
    IF lower(result) > 0 THEN "empty"
    ELSE IF hidden THEN "masked"
    ELSE IF upper(result) < 0 THEN "filled"
    ELSE "ambiguous"

\* lines 95-217: the forward pass and the classification of the tile
TileEvalStep(g, t, tps, m, junk) ==
    LET tile == g.tl[t]
        e == EvalI(g.td, tile.tape, TileIntervals(tile.position, tps, m), junk)
        pos == unpack(tile.position, tps)
        gone == [g.tl EXCEPT ![t].position = -1]
        th(pc, verdict, loc) == [g.wk EXCEPT ![t] = Thread(pc, verdict, tile.tape, loc)]
        b == SpecEvents(g.td, e)
        \* the position of the tile outlives the tile's own record of it
        was == [NoLocals EXCEPT !.pos = tile.position]
        verdict == v3_verdict(e.result, MaskedBy(g.img, pos))
    IN IF tile.position = -1
       THEN [g EXCEPT !.wk = th("done", "skipped", NoLocals)]
       ELSE IF verdict = "empty"
       THEN [g EXCEPT !.tl = gone, !.wk = th("done", "empty", was)]
       ELSE IF verdict = "masked"
       THEN [g EXCEPT !.tl = gone, !.wk = th("done", "masked", was)]
       ELSE IF verdict = "filled"
       THEN [g EXCEPT !.tl = gone, !.wk = th("fill", "filled", was)]
       ELSE IF ~e.has_any_choice
       THEN [g EXCEPT !.wk = th("done", "ambiguous",
                                 [NoLocals EXCEPT !.hist =
                                     [NoHist EXCEPT !.sites = ChoiceSites(g.td, tile.tape),
                                                    !.choices = e.choices]])]
       ELSE [g EXCEPT !.wk = th("claim", "ambiguous",
                                 [NoLocals EXCEPT !.evs = b.evs,
                                                  !.endw = g.td[e.data],
                                                  !.startw = g.td[b.data],
                                                  !.hist = [sites |-> ChoiceSites(g.td, tile.tape),
                                                            choices |-> e.choices,
                                                            passed |-> TRUE,
                                                            met |-> b.met,
                                                            ci |-> b.ci,
                                                            acts |-> b.evs]])]

\* line 212: atomicMax(&image[pos.w], pos.z)
TileFillStep(g, t, tps) ==
    LET pos == unpack(g.wk[t].pos, tps)
    IN [g EXCEPT !.img = [@ EXCEPT ![pos.w] = Max2(@, pos.z)],
                 !.wk = [@ EXCEPT ![t].pc = "done"]]

\* lines 229-335: one atomicAdd and everything up to the next one
TileClaimStep(g, t, ndebug) ==
    LET w == g.wk[t]
        out_index == g.ti
        g1 == [g EXCEPT !.ti = NextTapeIndex(g.ti),
                        !.claimed = Append(@, out_index)]
        r == IF w.out_offset = 0
             THEN FirstChunk(g.td, out_index, w.endw, w.evs)
             ELSE LinkChunk(g.td, w.out_index, out_index, w.evs)
        head == HeadOf(out_index, r.out_offset)
    IN IF ~ClaimAsserts(out_index) /\ ~ndebug
       THEN [g1 EXCEPT !.err = "assert"]
       ELSE IF ~ChunkInBounds(out_index)
       THEN [g1 EXCEPT !.err = "out of bounds"]
       ELSE IF r.evs = <<>>
       THEN [g1 EXCEPT !.td = [r.td EXCEPT ![head] = w.startw],
                       !.tl = [@ EXCEPT ![t].tape = head],
                       !.wk = [@ EXCEPT ![t] = Thread("done", "specialized", w.parent,
                                                      [NoLocals EXCEPT !.hist = w.hist])]]
       ELSE [g1 EXCEPT !.td = r.td,
                       !.wk = [@ EXCEPT ![t].out_index = out_index,
                                        ![t].out_offset = r.out_offset,
                                        ![t].evs = r.evs]]

\* the step of thread t, whatever it is
TileStep(g, t, tps, m, junk, ndebug) ==
    IF g.wk[t].pc = "start" THEN TileEvalStep(g, t, tps, m, junk)
    ELSE IF g.wk[t].pc = "fill" THEN TileFillStep(g, t, tps)
    ELSE TileClaimStep(g, t, ndebug)


-----------------------------------------------------------------------------
(* The kernels that run between the evaluation kernels                       *)

\* v3_preload_tiles
v3_preload_tiles(n) == [i \in 1..n |-> Tile(i - 1, 0, -1)]

\* a faulty masking kernel: one that masks nothing
MaskNothing(img, tl, n, tps) == tl

\* v3_mask_filled_tiles
v3_mask_filled_tiles(img, tl, n, tps) ==
    [i \in 1..Len(tl) |->
        IF i <= n /\ tl[i].position # -1 /\ MaskedBy(img, unpack(tl[i].position, tps))
        THEN [tl[i] EXCEPT !.position = -1]
        ELSE tl[i]]

ActiveTiles(tl, n) == {i \in 1..n : tl[i].position # -1}

\* the orders in which the atomicAdd of v3_assign_next_nodes can serve the
\* active threads of a block
AssignOrders(tl, n) ==
    LET act == ActiveTiles(tl, n)
    IN {o \in [1..Cardinality(act) -> act] :
            \A a, b \in 1..Cardinality(act) : a # b => o[a] # o[b]}

\* a faulty kernel: one that leaves every next as it was
AssignNothing(tl, n, o) == tl

\* v3_assign_next_nodes, the threads served in the order o
v3_assign_next_nodes(tl, n, o) ==
    [i \in 1..Len(tl) |->
        IF i > n THEN tl[i]
        ELSE IF tl[i].position # -1
        THEN [tl[i] EXCEPT !.next = (CHOOSE k \in DOMAIN o : o[k] = i) - 1]
        ELSE [tl[i] EXCEPT !.next = -1]]

SubCount == Subdiv * Subdiv * Subdiv

\* a faulty kernel: every child is put where its parent is
SubdivideInPlace(tl, n, tps, out) ==
    [t \in 1..Len(out) |->
        LET par == {i \in 1..n : tl[i].next # -1 /\ tl[i].next = (t - 1) \div SubCount}
        IN IF par = {} THEN out[t]
           ELSE Tile(tl[CHOOSE i \in par : TRUE].position,
                     tl[CHOOSE i \in par : TRUE].tape, -1)]

\* v3_subdivide_active_tiles: writes Subdiv^3 children per active tile
v3_subdivide_active_tiles(tl, n, tps, out) ==
    [t \in 1..Len(out) |->
        LET par == {i \in 1..n : tl[i].next # -1 /\ tl[i].next = (t - 1) \div SubCount}
        IN IF par = {} THEN out[t]
           ELSE LET i == CHOOSE i \in par : TRUE
                    pos == unpack(tl[i].position, tps)
                    sub == unpack((t - 1) % SubCount, Subdiv)
                    sps == tps * Subdiv
                IN Tile((pos.x * Subdiv + sub.x) + (pos.y * Subdiv + sub.y) * sps
                          + (pos.z * Subdiv + sub.z) * sps * sps,
                        tl[i].tape, -1)]

\* v3_copy_active_tiles: the compacted list, and the input with next cleared
v3_copy_active_tiles(tl, n, out) ==
    [out |-> [t \in 1..Len(out) |->
                LET src == {i \in 1..n : tl[i].next = t - 1}
                IN IF src = {} THEN out[t]
                   ELSE Tile(tl[CHOOSE i \in src : TRUE].position,
                             tl[CHOOSE i \in src : TRUE].tape, -1)],
     in |-> [i \in 1..Len(tl) |-> IF i <= n THEN [tl[i] EXCEPT !.next = -1] ELSE tl[i]]]

\* v3_copy_filled: a filled tile covers the pixels of the next level
v3_copy_filled(prev, image, size) ==
    [p \in 0..(size * size - 1) |->
        LET x == p % size
            y == p \div size
            t == prev[x \div Subdiv + (y \div Subdiv) * (size \div Subdiv)]
        IN IF t # 0 THEN t * Subdiv + (Subdiv - 1) ELSE image[p]]


-----------------------------------------------------------------------------
(* render_v3_blob as operators on the record r of the blob and the host:    *)
(*   td ti        tape_data, *tape_index                                     *)
(*   tiles filled stages[i].tiles, stages[i].filled, i in 0..NumTileStages   *)
(*   count stage  the host's count and loop index i                          *)
(*   wk err claimed  as in the kernel record; log: per finished stage (and  *)
(*   with the positions of the tiles it classified Filled),                 *)
(*   the chunks claimed so far and num_active_tiles                          *)

JunkTile == Tile(-2, -2, -2)
ZeroImage(size) == [p \in 0..(size * size - 1) |-> 0]
StartThread == Thread("start", "none", 0, NoLocals)

KernelOf(r) ==
    [td |-> r.td, ti |-> r.ti, img |-> r.filled[r.stage], tl |-> r.tiles[r.stage],
     wk |-> r.wk, err |-> r.err, claimed |-> r.claimed]
AfterKernel(r, g) ==
    [r EXCEPT !.td = g.td, !.ti = g.ti, !.filled = [@ EXCEPT ![r.stage] = g.img],
              !.tiles = [@ EXCEPT ![r.stage] = g.tl], !.wk = g.wk, !.err = g.err,
              !.claimed = g.claimed]

\* lines 1095-1121: v3_calculate_intervals, v3_mask_filled_tiles and the
\* launch of v3_eval_tiles_i for stage r.stage
LaunchTiles(r) ==
    [r EXCEPT !.tiles = [@ EXCEPT ![r.stage] =
                            v3_mask_filled_tiles(r.filled[r.stage], @, r.count,
                                                 LevelSize(r.stage))],
              !.wk = [t \in 1..r.count |-> StartThread]]

KeepIndex(r, len) == r

\* "Reset the tape index": *blob.tape_index = blob.tape_length
ResetIndex(r, len) == [r EXCEPT !.ti = len]

\* lines 1054-1078, then the first pass of the loop up to the launch
RenderStart(r, len) ==
    LaunchTiles([ResetIndex(r, len) EXCEPT
                          !.filled = [i \in 0..NumTileStages |-> ZeroImage(LevelSize(i))],
                          !.tiles = [@ EXCEPT ![0] = v3_preload_tiles(Pow(Tps0, 3))],
                          !.count = Pow(Tps0, 3),
                          !.stage = 0,
                          !.normals = [p \in DOMAIN @ |-> <<0, 0, 0>>],
                          !.claimed = <<>>,
                          !.log = <<>>])

\* lines 1123-1193: the rest of pass r.stage of the loop; the threads of
\* v3_assign_next_nodes are served in the order o
FinishTiles(r, o) ==
    LET i == r.stage
        tps == LevelSize(i)
        masked == v3_mask_filled_tiles(r.filled[i], r.tiles[i], r.count, tps)
        next == v3_assign_next_nodes(masked, r.count, o)
        active == Cardinality(ActiveTiles(masked, r.count))
        num_active_tiles == IF i < NumTileStages - 1 THEN active * SubCount ELSE active
        room == IF num_active_tiles > Len(r.tiles[i + 1])
                THEN [t \in 1..num_active_tiles |-> JunkTile]
                ELSE r.tiles[i + 1]
        cp == v3_copy_active_tiles(next, r.count, room)
        out == IF i < NumTileStages - 1
               THEN v3_subdivide_active_tiles(next, r.count, tps, room)
               ELSE cp.out
        kept == IF i < NumTileStages - 1 THEN next ELSE cp.in
    IN [r EXCEPT !.tiles = [@ EXCEPT ![i] = kept, ![i + 1] = out],
                 !.filled = [@ EXCEPT ![i + 1] =
                                v3_copy_filled(r.filled[i], @, LevelSize(i + 1))],
                 !.count = num_active_tiles,
                 !.stage = i + 1,
                 !.wk = <<>>,
                 !.log = Append(@, [chunks |-> Len(r.claimed), active |-> active,
                                    solid |-> {r.wk[t].pos : t \in
                                        {u \in DOMAIN r.wk :
                                            r.wk[u].verdict = "filled"}}])]


-----------------------------------------------------------------------------
(* v3_eval_voxels_f: one thread per pair of voxels, Half apart in Z         *)

\* the distance in Z between the two voxels of a thread (2 in the program)
Half == Subdiv \div 2
\* threads per tile (32 in the program)
PairsPerTile == Subdiv * Subdiv * Half

VoxelTile(v) == (v - 1) \div PairsPerTile + 1
\* the voxel (px, py, pz) of the lower voxel of thread v, and its pixel
VoxelOf(tl, v, tps) ==
    LET pos == unpack(tl[VoxelTile(v)].position, tps)
        sub == unpack((v - 1) % PairsPerTile, Subdiv)
    IN [px |-> pos.x * Subdiv + sub.x, py |-> pos.y * Subdiv + sub.y,
        pz |-> pos.z * Subdiv + sub.z,
        pxy |-> (pos.x * Subdiv + sub.x) + (pos.y * Subdiv + sub.y) * tps * Subdiv]

\* lines 563-660 up to the atomicMax: the early return, the evaluation of
\* both voxels, the choice of the depth to write
VoxelEvalStep(g, v, tps, m, junk) ==
    LET c == VoxelOf(g.tl, v, tps)
        tape == g.tl[VoxelTile(v)].tape
        x == EvalF(g.td, tape, VoxelPoint(c.px, c.py, c.pz, m), junk)
        y == EvalF(g.td, tape, VoxelPoint(c.px, c.py, c.pz + Half, m), junk)
        th(pc, verdict, pz) ==
            [g.wk EXCEPT ![v] = Thread(pc, verdict, tape, [NoLocals EXCEPT !.pos = pz])]
    IN IF g.img[c.pxy] >= c.pz + Half
       THEN [g EXCEPT !.wk = th("done", "skipped", -1)]
       ELSE IF y < 0 THEN [g EXCEPT !.wk = th("max", "upper", c.pz + Half)]
       ELSE IF x < 0 THEN [g EXCEPT !.wk = th("max", "lower", c.pz)]
       ELSE [g EXCEPT !.wk = th("done", "outside", -1)]

\* a plain store in place of the atomicMax
VoxelStoreStep(g, v, tps) ==
    LET c == VoxelOf(g.tl, v, tps)
    IN [g EXCEPT !.img = [@ EXCEPT ![c.pxy] = g.wk[v].pos],
                 !.wk = [@ EXCEPT ![v].pc = "done"]]

\* atomicMax(&image[px + py * tiles_per_side * 4], pz)
VoxelMaxStep(g, v, tps) ==
    LET c == VoxelOf(g.tl, v, tps)
    IN [g EXCEPT !.img = [@ EXCEPT ![c.pxy] = Max2(@, g.wk[v].pos)],
                 !.wk = [@ EXCEPT ![v].pc = "done"]]

VoxelStep(g, v, tps, m, junk) ==
    IF g.wk[v].pc = "start" THEN VoxelEvalStep(g, v, tps, m, junk)
    ELSE VoxelMaxStep(g, v, tps)

\* lines 1202-1222: v3_calculate_voxels and the launch of v3_eval_voxels_f
LaunchVoxels(r) == [r EXCEPT !.wk = [v \in 1..(r.count * PairsPerTile) |-> StartThread]]

-----------------------------------------------------------------------------
(* A kernel run one thread after the other, each thread to its end          *)

RECURSIVE RunTileThread(_, _, _, _, _, _)
RunTileThread(g, t, tps, m, junk, ndebug) ==
    IF g.err # "none" \/ g.wk[t].pc = "done" THEN g
    ELSE RunTileThread(TileStep(g, t, tps, m, junk, ndebug), t, tps, m, junk, ndebug)

RECURSIVE SerialTiles(_, _, _, _, _, _)
SerialTiles(g, order, tps, m, junk, ndebug) ==
    IF order = <<>> THEN g
    ELSE SerialTiles(RunTileThread(g, Head(order), tps, m, junk, ndebug),
                     Tail(order), tps, m, junk, ndebug)

RECURSIVE RunVoxelThread(_, _, _, _, _)
RunVoxelThread(g, v, tps, m, junk) ==
    IF g.wk[v].pc = "done" THEN g
    ELSE RunVoxelThread(VoxelStep(g, v, tps, m, junk), v, tps, m, junk)

RECURSIVE SerialVoxels(_, _, _, _, _)
SerialVoxels(g, order, tps, m, junk) ==
    IF order = <<>> THEN g
    ELSE SerialVoxels(RunVoxelThread(g, Head(order), tps, m, junk),
                      Tail(order), tps, m, junk)

Ascending(n) == [i \in 1..n |-> i]
Descending(n) == [i \in 1..n |-> n + 1 - i]


-----------------------------------------------------------------------------
(* Expressions and views the model renders                                   *)

\* min(min(X + 2, Z + 6), Y + 20): the outer min is decided on the whole
\* volume, the inner one on half of the second-stage tiles
DagNested ==
    <<NVar("VAR_X"), NConst(2), NBin("OP_ADD", 1, 2),
      NVar("VAR_Z"), NConst(6), NBin("OP_ADD", 4, 5),
      NBin("OP_MIN", 3, 6),
      NVar("VAR_Y"), NConst(20), NBin("OP_ADD", 8, 9),
      NBin("OP_MIN", 7, 10)>>

\* max(-Z - 1, X - 5): the upper half is inside the solid
DagSlab ==
    <<NVar("VAR_Z"), NUn("OP_NEG", 1), NConst(1), NBin("OP_SUB", 2, 3),
      NVar("VAR_X"), NConst(5), NBin("OP_SUB", 5, 6),
      NBin("OP_MAX", 4, 7)>>

\* min(((X + 1 - 1) + 1 - 1 ...), Y + 30): the first stage keeps the long
\* chain of ten clauses, more than the pool has room for
DagDeep ==
    <<NVar("VAR_X"), NConst(1),
      NBin("OP_ADD", 1, 2), NBin("OP_SUB", 3, 2), NBin("OP_ADD", 4, 2),
      NBin("OP_SUB", 5, 2), NBin("OP_ADD", 6, 2), NBin("OP_SUB", 7, 2),
      NBin("OP_ADD", 8, 2), NBin("OP_SUB", 9, 2), NBin("OP_ADD", 10, 2),
      NBin("OP_SUB", 11, 2),
      NVar("VAR_Y"), NConst(30), NBin("OP_ADD", 13, 14),
      NBin("OP_MIN", 12, 15)>>

\* max(X + 2, Y + 2): one column of microtiles crosses the surface, and
\* every voxel of its first pixel is inside
DagColumn ==
    <<NVar("VAR_X"), NConst(2), NBin("OP_ADD", 1, 2),
      NVar("VAR_Y"), NBin("OP_ADD", 4, 2),
      NBin("OP_MAX", 3, 5)>>

\* max(max(X + 2, Y + 2), Z - 3): the same column, cut off below its top
\* voxel; the lower microtile drops the Z - 3 operand
DagStep ==
    <<NVar("VAR_X"), NConst(2), NBin("OP_ADD", 1, 2),
      NVar("VAR_Y"), NBin("OP_ADD", 4, 2),
      NBin("OP_MAX", 3, 5),
      NVar("VAR_Z"), NConst(3), NBin("OP_SUB", 7, 8),
      NBin("OP_MAX", 6, 9)>>

\* (X * 0) + 1 as libfive hands it over: folded to the constant 1
DagOne == <<NConst(1)>>

\* Z - 1: the lower half of the volume is inside the solid, and no voxel
\* centre of the upper half is
DagFloor == <<NVar("VAR_Z"), NConst(1), NBin("OP_SUB", 1, 2)>>

Dags == <<DagNested, DagSlab, DagDeep, DagColumn, DagStep, DagOne, DagFloor>>
\* the expressions that have folded to a constant
FoldedScens == {d \in DOMAIN Dags : \A c \in DOMAIN Dags[d] : Dags[d][c].op = "CONSTANT"}

\* the value of node i of a DAG at the point pt: the shape function itself
RECURSIVE EvalNode(_, _, _)
EvalNode(dag, i, pt) ==
    LET c == dag[i]
    IN IF c.op = "CONSTANT" THEN c.value
       ELSE IF c.op = "VAR_X" THEN pt[1]
       ELSE IF c.op = "VAR_Y" THEN pt[2]
       ELSE IF c.op = "VAR_Z" THEN pt[3]
       ELSE IF c.op \in UnaryOps THEN PointOp(c.op, EvalNode(dag, c.lhs, pt), 0)
       ELSE PointOp(c.op, EvalNode(dag, c.lhs, pt), EvalNode(dag, c.rhs, pt))
ShapeAt(d, pt) == EvalNode(Dags[d], Len(Dags[d]), pt)

\* the points of a region with whole-number coordinates
PointsOf(vals) ==
    {<<x, y, z>> : x \in lower(vals[1])..upper(vals[1]),
                   y \in lower(vals[2])..upper(vals[2]),
                   z \in lower(vals[3])..upper(vals[3])}
Views == {<<0, 0, 0>>, <<0, 0, 2>>}
\* the views of a folded expression: the volume reaches below Z = 0, or
\* lies above it
FoldedViews == {<<0, 0, -2>>, <<0, 0, 2>>, <<0, 0, 6>>}
ViewsOf(d) == IF d \in FoldedScens THEN FoldedViews ELSE Views

\* calls of render_v3_blob on one blob
MaxRenders == 2

\* what uninitialised device memory may hold
JunkIntervals == {<<-1, -1>>, <<1, 1>>}
JunkFloats == {-1, 1}
JunkDepths == {0, ImageSize - 1}

-----------------------------------------------------------------------------
(* The fused pipeline as a state machine                                     *)

Blob ==
    [td |-> tape_data, ti |-> tape_index, tiles |-> tiles, filled |-> filled,
     count |-> count, stage |-> stage, wk |-> wk, err |-> err, claimed |-> claimed,
     log |-> log, normals |-> normals]
SetBlob(r) ==
    /\ tape_data' = r.td
    /\ tape_index' = r.ti
    /\ tiles' = r.tiles
    /\ filled' = r.filled
    /\ count' = r.count
    /\ stage' = r.stage
    /\ wk' = r.wk
    /\ err' = r.err
    /\ claimed' = r.claimed
    /\ log' = r.log
    /\ normals' = r.normals

\* the blob that build_v3_blob returns for expression d; device memory that
\* it allocates and does not write holds junk
\* the root tape of each expression
RootTapes == [d \in DOMAIN Dags |-> build_v3_blob(Dags[d])]

NewBlob(d, depth) ==
    LET b == RootTapes[d]
    IN [td |-> [i \in 0..(TapeWords - 1) |->
                    IF i < Len(b.flat) THEN b.flat[i + 1] ELSE Junk],
        ti |-> 0,
        tiles |-> [i \in 0..NumTileStages |->
                      IF i = 0 THEN [t \in 1..Pow(Tps0, 3) |-> JunkTile] ELSE <<>>],
        filled |-> [i \in 0..NumTileStages |->
                      [p \in 0..(LevelSize(i) * LevelSize(i) - 1) |-> depth]],
        count |-> 0, stage |-> 0, wk |-> <<>>, err |-> "none", claimed |-> <<>>,
        log |-> <<>>,
        normals |-> [p \in 0..(ImageSize * ImageSize - 1) |-> <<depth, depth, depth>>]]

InitBlobOf(scens) ==
    /\ scen \in scens
    /\ view = <<0, 0, 0>>
    /\ phase = "idle"
    /\ tape_length = Len(RootTapes[scen].flat)
    /\ \E depth \in JunkDepths :
         LET r == NewBlob(scen, depth)
         IN /\ tape_data = r.td /\ tape_index = r.ti /\ tiles = r.tiles
            /\ filled = r.filled /\ count = r.count /\ stage = r.stage
            /\ wk = r.wk /\ err = r.err /\ claimed = r.claimed /\ log = r.log
            /\ normals = r.normals
    /\ renders = 0
    /\ shots = [v \in Views \cup FoldedViews |-> {}]

\* render_v3_blob is called: everything up to the first launch
RenderCall ==
    /\ phase = "idle" /\ renders < MaxRenders
    /\ \E v \in ViewsOf(scen) :
         /\ view' = v
         /\ SetBlob(RenderStart(Blob, tape_length))
    /\ phase' = "tiles"
    /\ renders' = renders + 1
    /\ UNCHANGED <<scen, tape_length, shots, opsVars, r3d>>

\* a thread of v3_eval_tiles_i evaluates and classifies its tile
EvalTile(t) ==
    /\ phase = "tiles" /\ err = "none"
    /\ wk[t].pc = "start"
    /\ \E junk \in JunkIntervals :
         SetBlob(AfterKernel(Blob, TileEvalStep(KernelOf(Blob), t, LevelSize(stage),
                                                view, junk)))
    /\ UNCHANGED <<scen, view, phase, tape_length, renders, shots, opsVars, r3d>>

\* a thread of v3_eval_tiles_i marks its filled tile in the image
FillTile(t) ==
    /\ phase = "tiles" /\ err = "none"
    /\ wk[t].pc = "fill"
    /\ SetBlob(AfterKernel(Blob, TileFillStep(KernelOf(Blob), t, LevelSize(stage))))
    /\ UNCHANGED <<scen, view, phase, tape_length, renders, shots, opsVars, r3d>>

\* a thread of v3_eval_tiles_i claims a chunk and writes into it; the build
\* has its asserts compiled out (ndebug) or not
ClaimChunk(t) ==
    /\ phase = "tiles" /\ err = "none"
    /\ wk[t].pc = "claim"
    /\ \E ndebug \in BOOLEAN :
         SetBlob(AfterKernel(Blob, TileClaimStep(KernelOf(Blob), t, ndebug)))
    /\ UNCHANGED <<scen, view, phase, tape_length, renders, shots, opsVars, r3d>>

\* the host, once the kernel has finished: the rest of the pass, then the
\* launch of the next kernel
EndStage ==
    /\ phase = "tiles" /\ err = "none"
    /\ \A t \in DOMAIN wk : wk[t].pc = "done"
    /\ \E o \in AssignOrders(v3_mask_filled_tiles(filled[stage], tiles[stage], count,
                                                  LevelSize(stage)), count) :
         LET r == FinishTiles(Blob, o)
         IN IF r.stage < NumTileStages
            THEN SetBlob(LaunchTiles(r)) /\ phase' = "tiles"
            ELSE SetBlob(LaunchVoxels(r)) /\ phase' = "voxels"
    /\ UNCHANGED <<scen, view, tape_length, renders, shots, opsVars, r3d>>

\* a clause of the banked pipeline
BClause(opcode, banks, out, lhs, rhs) ==
    [opcode |-> opcode, banks |-> banks, out |-> out, lhs |-> lhs, rhs |-> rhs]
\* a clause of a chunk that nothing has written
JunkClause == BClause("JUNK", 0, 0, 0, 0)

\* the object that the constructor leaves: nothing reset yet
NewR3d ==
    [phase |-> "idle", scen |-> 1, renders |-> 0, level |-> 0, err |-> "none",
     wk |-> <<>>, claimed |-> <<>>,
     sub |-> [num |-> 0,
              start |-> [i \in 0..(NUM_SUBTAPES - 1) |-> 0],
              next |-> [i \in 0..(NUM_SUBTAPES - 1) |-> 0],
              prev |-> [i \in 0..(NUM_SUBTAPES - 1) |-> 0],
              data |-> [i \in 0..(NUM_SUBTAPES - 1) |->
                          [k \in 0..(SUBTAPE_CHUNK_SIZE - 1) |-> JunkClause]]],
     heads |-> [lv \in 0..(NumTileStages - 1) |->
                  [t \in 0..(Pow(LevelSize(lv), 3) - 1) |->
                      [head |-> 0, terminal |-> FALSE]]],
     queues |-> [lv \in 0..(NumTileStages - 1) |-> <<>>],
     filled |-> [lv \in 0..(NumTileStages - 1) |->
                   [p \in 0..(LevelSize(lv) * LevelSize(lv) - 1) |-> 0]],
     image |-> [p \in 0..(ImageSize * ImageSize - 1) |-> 0]]

\* the banked pipeline is not in use
NoR3d == [NewR3d EXCEPT !.phase = "off"]
InitBlob == InitBlobOf(DOMAIN Dags \ FoldedScens)

InitR3dIdle == r3d = NoR3d

\* no tape compiler has been called
NoBuild == [phase |-> "off", dag |-> <<>>, by |-> "none", c |-> 0, st |-> <<>>,
            flat |-> <<>>, outs |-> <<>>, taken |-> 0, ub |-> FALSE]

\* no surface copy has been asked for
NoSurface == [phase |-> "off", image |-> <<>>, norm |-> <<>>, texture_size |-> 0,
              append |-> FALSE, before |-> <<>>, tex |-> <<>>, by |-> "none"]

\* no tile is being specialized on its own
NoSpz == [phase |-> "off", by |-> "none", d |-> 0, view |-> <<0, 0, 0>>, stage |-> 0,
          t |-> 0, g |-> <<>>, b |-> <<>>]

\* no voxel is being placed in its tiles on its own
NoGeo == [phase |-> "off", center |-> <<0, 0, 0>>, level |-> 0, queues |-> <<>>,
          regions |-> <<>>, voxel |-> 0, pt |-> <<>>]

\* no tile list is being compacted on its own
NoCompact == [phase |-> "off", tl |-> <<>>, count |-> 0, tps |-> 0, last |-> FALSE,
              pc |-> <<>>, local_offset |-> <<>>, my_offset |-> <<>>,
              num_active_tiles |-> 0, out |-> <<>>, writers |-> <<>>,
              err |-> "none"]

\* no forward pass is being followed for its choices
NoChoices == [phase |-> "off", by |-> "none", sites |-> 0, shift |-> 0,
              choice_index |-> 0, choices |-> <<>>, wild |-> FALSE, fatal |-> FALSE]

\* no tile is being classified on its own
NoVerdict == [phase |-> "off", root |-> <<0, 0>>, hidden |-> FALSE,
              has_any_choice |-> FALSE, by |-> "none", verdict |-> "none",
              specializes |-> FALSE]

InitOpsIdle ==
    /\ opq = [op |-> "none", lhs |-> <<0, 0>>, rhs |-> <<0, 0>>, by |-> "none",
              v |-> <<0, 0>>, choice |-> 0, fatal |-> FALSE]
    /\ bld = NoBuild
    /\ surf = NoSurface
    /\ cls = NoVerdict
    /\ spz = NoSpz
    /\ cpt = NoCompact
    /\ chb = NoChoices
    /\ geo = NoGeo

InitTiles == InitBlob /\ InitOpsIdle /\ InitR3dIdle
NextTiles ==
    \/ RenderCall
    \/ \E t \in DOMAIN wk : EvalTile(t)
    \/ \E t \in DOMAIN wk : FillTile(t)
    \/ \E t \in DOMAIN wk : ClaimChunk(t)
    \/ EndStage
SpecTiles == InitTiles /\ [][NextTiles]_vars


-----------------------------------------------------------------------------
(* A whole render with every kernel run serially: the run the interleaved   *)
(* runs are compared with                                                    *)

InOrder(S) ==
    [k \in 1..Cardinality(S) |-> CHOOSE x \in S : Cardinality({y \in S : y < x}) = k - 1]

\* the passes of the loop from pass r.stage on, threads in ascending order
RECURSIVE SerialStages(_, _, _, _)
SerialStages(r, m, junk, ndebug) ==
    LET g == SerialTiles(KernelOf(r), Ascending(r.count), LevelSize(r.stage), m, junk,
                         ndebug)
        r1 == AfterKernel(r, g)
        r2 == FinishTiles(r1, InOrder(ActiveTiles(
                  v3_mask_filled_tiles(r1.filled[r1.stage], r1.tiles[r1.stage], r1.count,
                                       LevelSize(r1.stage)), r1.count)))
    IN IF g.err # "none" THEN r1
       ELSE IF r2.stage < NumTileStages THEN SerialStages(LaunchTiles(r2), m, junk, ndebug)
       ELSE LaunchVoxels(r2)

\* the tile stages of a first render of expression d under view m
SerialTileStages(d, m) ==
    SerialStages(RenderStart(NewBlob(d, 0), Len(RootTapes[d].flat)), m,
                 <<1, 1>>, FALSE)

\* the voxel stage after them
SerialVoxelStage(r, m) ==
    AfterKernel(r, SerialVoxels(KernelOf(r), Ascending(Len(r.wk)),
                                LevelSize(NumTileStages - 1), m, 1))

\* The same render with the occlusion mask out of use: the mask test of
\* v3_eval_tiles_i reads an image that hides nothing, and
\* v3_mask_filled_tiles is not run
NoDepth(img) == [p \in DOMAIN img |-> -1]

UnmaskedStep(g, t, tps, m, junk, ndebug) ==
    IF g.wk[t].pc = "start"
    THEN [TileEvalStep([g EXCEPT !.img = NoDepth(@)], t, tps, m, junk)
             EXCEPT !.img = g.img]
    ELSE TileStep(g, t, tps, m, junk, ndebug)

RECURSIVE RunUnmaskedThread(_, _, _, _, _, _)
RunUnmaskedThread(g, t, tps, m, junk, ndebug) ==
    IF g.err # "none" \/ g.wk[t].pc = "done" THEN g
    ELSE RunUnmaskedThread(UnmaskedStep(g, t, tps, m, junk, ndebug), t, tps, m, junk,
                           ndebug)

RECURSIVE SerialUnmasked(_, _, _, _, _, _)
SerialUnmasked(g, order, tps, m, junk, ndebug) ==
    IF order = <<>> THEN g
    ELSE SerialUnmasked(RunUnmaskedThread(g, Head(order), tps, m, junk, ndebug),
                        Tail(order), tps, m, junk, ndebug)

RECURSIVE UnmaskedStages(_, _, _, _)
UnmaskedStages(r, m, junk, ndebug) ==
    LET g == SerialUnmasked(KernelOf(r), Ascending(r.count), LevelSize(r.stage), m,
                            junk, ndebug)
        r1 == AfterKernel(r, g)
        i == r1.stage
        f == FinishTiles([r1 EXCEPT !.filled = [@ EXCEPT ![i] = NoDepth(@)]],
                         InOrder(ActiveTiles(r1.tiles[i], r1.count)))
        r2 == [f EXCEPT !.filled =
                  [r1.filled EXCEPT ![i + 1] =
                      v3_copy_filled(r1.filled[i], @, LevelSize(i + 1))]]
    IN IF g.err # "none" THEN r1
       ELSE IF r2.stage < NumTileStages
       THEN UnmaskedStages([r2 EXCEPT !.wk = [t \in 1..r2.count |-> StartThread]],
                           m, junk, ndebug)
       ELSE LaunchVoxels(r2)

\* the blob after the render of expression d under view m without the mask
UnmaskedRender(d, m) ==
    LET r0 == RenderStart(NewBlob(d, 0), Len(RootTapes[d].flat))
        r == UnmaskedStages([r0 EXCEPT !.tiles = [@ EXCEPT ![0] =
                                           v3_preload_tiles(Pow(Tps0, 3))]],
                            m, <<1, 1>>, FALSE)
    IN IF r.err # "none" THEN r ELSE SerialVoxelStage(r, m)
UnmaskedRenders ==
    [d \in DOMAIN Dags \ FoldedScens |-> [m \in Views |-> UnmaskedRender(d, m)]]


-----------------------------------------------------------------------------
(* Properties of the tile stages                                             *)

\* the region of the tile that thread t of the running kernel works on
\* (its position is kept by the tile, or by the thread once the tile's is
\* overwritten with -1)
RegionOfThread(t) ==
    TileIntervals(IF tiles[stage][t].position # -1 THEN tiles[stage][t].position
                  ELSE wk[t].pos, LevelSize(stage), view)

\* v3 part of C1: a specialised subtape and its parent tape agree at every
\* point of the tile
InvV3Equivalent ==
    phase = "tiles" =>
        \A t \in DOMAIN wk :
            wk[t].verdict = "specialized" =>
                \A pt \in PointsOf(RegionOfThread(t)) :
                    /\ EvalF(tape_data, tiles[stage][t].tape, pt, 1)
                         = EvalF(tape_data, wk[t].parent, pt, 1)
                    /\ EvalF(tape_data, tiles[stage][t].tape, pt, 1) = ShapeAt(scen, pt)
WitV3Equivalent ==
    /\ phase = "tiles" /\ stage = 1
    /\ \E t \in DOMAIN wk :
         /\ wk[t].verdict = "specialized"
         /\ wk[t].parent # 0
         /\ \E i \in DOMAIN tape_data :
              i >= tape_length /\ tape_data[i].op = "GPU_OP_JUMP"

\* C6: any two claims on the pool return different chunk indices, and the
\* word ranges of the chunks they return are disjoint
InvClaimsDistinct ==
    \A i, j \in DOMAIN claimed :
        i # j => \/ claimed[i] + SUBTAPE_CHUNK_SIZE <= claimed[j]
                 \/ claimed[j] + SUBTAPE_CHUNK_SIZE <= claimed[i]
\* two threads are in the middle of their specialisations, each with a
\* chunk claimed and more to claim
WitClaimsDistinct ==
    /\ Len(claimed) >= 4
    /\ \E t, u \in DOMAIN wk :
         t # u /\ wk[t].pc = "claim" /\ wk[u].pc = "claim"
         /\ wk[t].out_offset # 0 /\ wk[u].out_offset # 0

\* C16: in every render the free index starts at tape_length, past the
\* words of the root tape, so that it stands at tape_length plus the chunks
\* claimed in this render; no claim returns 0 and no claimed chunk holds a
\* word of the root tape
PoolStartsPastRoot ==
    (phase # "idle" /\ renders > 0) =>
        /\ tape_index = tape_length + SUBTAPE_CHUNK_SIZE * Len(claimed)
        /\ \A i \in DOMAIN claimed : claimed[i] # 0 /\ claimed[i] >= tape_length
\* a chunk has been claimed in a repeated render
WitPoolStartsPastRoot ==
    phase # "idle" /\ renders = MaxRenders /\ Len(claimed) >= 1

\* the tiles of the stage that is ending that were classified Ambiguous and
\* that the depth image does not hide
LiveTiles ==
    {t \in 1..count :
        /\ wk[t].verdict \in {"ambiguous", "specialized"}
        /\ LET pos == unpack(tiles[stage][t].position, LevelSize(stage))
           IN filled[stage][pos.w] <= pos.z}

\* C17: when a stage ends, exactly the tiles that were classified Ambiguous
\* and are not masked get records in the next list (Subdiv^3 children with
\* the tile's tape, or one record of the voxel list after the last tile
\* stage); every other tile has next = -1 and no record
ChildrenOfAmbiguousOnly ==
    [][(phase = "tiles" /\ stage' = stage + 1) =>
        /\ \A t \in (1..count) \ LiveTiles :
              /\ tiles'[stage][t].position = -1
              /\ tiles'[stage][t].next = -1
        /\ stage < NumTileStages - 1 =>
              /\ count' = Cardinality(LiveTiles) * SubCount
              /\ \A t \in LiveTiles :
                    /\ tiles'[stage][t].next \in 0..(Cardinality(LiveTiles) - 1)
                    /\ \A u \in LiveTiles :
                          u # t => tiles'[stage][u].next # tiles'[stage][t].next
                    /\ \A j \in 1..SubCount :
                          tiles'[stage + 1][tiles'[stage][t].next * SubCount + j].tape
                              = tiles[stage][t].tape
        /\ stage = NumTileStages - 1 =>
              /\ count' = Cardinality(LiveTiles)
              /\ \A t \in LiveTiles :
                    \E j \in 1..count' :
                        /\ tiles'[stage + 1][j].position = tiles[stage][t].position
                        /\ tiles'[stage + 1][j].tape = tiles[stage][t].tape
    ]_vars
\* a stage of several tiles has ended: some have records in the next list,
\* some have none
WitChildrenOfAmbiguousOnly ==
    /\ phase = "voxels" /\ count >= 1
    /\ \E t \in DOMAIN tiles[NumTileStages - 1] :
         tiles[NumTileStages - 1][t].position = -1

\* the position of the tile of thread t of the running kernel
PosOfThread(t) ==
    unpack(IF tiles[stage][t].position # -1 THEN tiles[stage][t].position
           ELSE wk[t].pos, LevelSize(stage))

\* thread t found its tile hidden, or its tile is one that
\* v3_mask_filled_tiles will hide after the kernel
HiddenTile(t) ==
    \/ wk[t].verdict = "masked"
    \/ /\ wk[t].verdict \in {"ambiguous", "specialized"}
       /\ MaskedBy(filled[stage], PosOfThread(t))

\* C18: a tile is hidden only under a tile of its column that has been
\* classified Filled and lies strictly above it; and whatever the
\* interleaving of the mask reads and the atomicMax writes, the depth image
\* that the render ends with is the one of the render without the mask
MaskKeepsDepth ==
    /\ (phase = "tiles" /\ err = "none") =>
          \A t \in DOMAIN wk :
              HiddenTile(t) =>
                  \E u \in DOMAIN wk :
                      /\ wk[u].verdict = "filled" /\ wk[u].pc = "done"
                      /\ PosOfThread(u).w = PosOfThread(t).w
                      /\ PosOfThread(u).z > PosOfThread(t).z
                      /\ filled[stage][PosOfThread(t).w] >= PosOfThread(u).z
    /\ (/\ phase = "voxels" /\ err = "none"
        /\ \A v \in DOMAIN wk : wk[v].pc = "start"
        /\ UnmaskedRenders[scen][view].err = "none") =>
          SerialVoxelStage(Blob, view).filled[NumTileStages]
              = UnmaskedRenders[scen][view].filled[NumTileStages]
\* the tile stages have ended with fewer tiles left for the voxel stage
\* than the render without the mask leaves
WitMaskKeepsDepth ==
    /\ phase = "voxels" /\ err = "none"
    /\ \A v \in DOMAIN wk : wk[v].pc = "start"
    /\ UnmaskedRenders[scen][view].err = "none"
    /\ count < UnmaskedRenders[scen][view].count
    /\ \E p \in DOMAIN filled[NumTileStages] : filled[NumTileStages][p] > 0

\* the pixels under the tile at pos of a stage with tps tiles per side
Footprint(pos, tps) ==
    LET size == ImageSize \div tps
    IN {x + y * ImageSize :
           x \in (pos.x * size)..(pos.x * size + size - 1),
           y \in (pos.y * size)..(pos.y * size + size - 1)}

\* the Z of the topmost voxel of that tile
TopVoxel(pos, tps) == pos.z * (ImageSize \div tps) + (ImageSize \div tps) - 1

\* C19: the depth image that a render ends with holds, at every pixel under
\* a tile that a stage has classified Filled, at least the Z of the tile's
\* topmost voxel, for the tiles of Z index 0 too
FilledTilesShow ==
    (/\ phase = "voxels" /\ err = "none"
     /\ \A v \in DOMAIN wk : wk[v].pc = "start") =>
        \A i \in DOMAIN log :
            \A p \in log[i].solid :
                LET tps == LevelSize(i - 1)
                    pos == unpack(p, tps)
                IN \A q \in Footprint(pos, tps) :
                       SerialVoxelStage(Blob, view).filled[NumTileStages][q]
                           >= TopVoxel(pos, tps)

\* v3 part of C2: a tile classified Filled is inside the shape at every
\* point, a tile classified Empty outside at every point
InvV3Sound ==
    phase = "tiles" =>
        \A t \in DOMAIN wk :
            /\ wk[t].verdict = "filled" =>
                 \A pt \in PointsOf(RegionOfThread(t)) : ShapeAt(scen, pt) < 0
            /\ wk[t].verdict = "empty" =>
                 \A pt \in PointsOf(RegionOfThread(t)) : ShapeAt(scen, pt) > 0
WitV3Sound ==
    /\ phase = "tiles" /\ stage = 1
    /\ \E t \in DOMAIN wk : wk[t].verdict = "filled" /\ wk[t].pc = "done"

\* C7: when a claim exceeds the pool, the render goes on: it neither dies
\* nor writes outside the pool, and the tile keeps its parent's tape
PoolExhaustionRecovers ==
    (\E i \in DOMAIN claimed : ~ChunkInBounds(claimed[i])) =>
        /\ err = "none"
        /\ \A t \in DOMAIN wk :
             wk[t].pc = "done" /\ wk[t].verdict = "ambiguous" =>
                 tiles[stage][t].tape = wk[t].parent /\ tiles[stage][t].position # -1

\* the log of the render under way when every kernel runs serially
SerialLogs == [d \in DOMAIN Dags |-> [m \in Views |-> SerialTileStages(d, m).log]]
SerialLog == SerialLogs[scen][view]

\* C9 as amended: the number of active tiles queued after each stage is
\* the same for every interleaving
InvQueueSizes ==
    \A i \in DOMAIN log :
        i \in DOMAIN SerialLog => log[i].active = SerialLog[i].active
\* a render in which a tile read the depth mask after the filled tile above
\* it had written it, and so claimed no chunk
WitQueueSizes ==
    /\ phase = "voxels" /\ Len(log) = NumTileStages
    /\ log[NumTileStages].chunks < SerialLog[NumTileStages].chunks
    /\ log[NumTileStages].active = SerialLog[NumTileStages].active

\* C9 as stated: the chunks claimed are the same for every interleaving too
ChunksAndQueuesRepeat ==
    \A i \in DOMAIN log :
        i \in DOMAIN SerialLog => /\ log[i].chunks = SerialLog[i].chunks
                                  /\ log[i].active = SerialLog[i].active


-----------------------------------------------------------------------------
(* The voxel stage: v3_eval_voxels_f with its threads interleaved           *)

\* the most microtiles a voxel stage explored thread by thread may have
MaxVoxelTiles == 2

\* a thread of v3_eval_voxels_f reads the depth of its pixel and, unless
\* that is above both its voxels, evaluates them
EvalVoxels(v) ==
    /\ phase = "voxels" /\ count <= MaxVoxelTiles
    /\ wk[v].pc = "start"
    /\ \E junk \in JunkFloats :
         SetBlob(AfterKernel(Blob, VoxelEvalStep(KernelOf(Blob), v,
                                                LevelSize(NumTileStages - 1), view, junk)))
    /\ UNCHANGED <<scen, view, phase, tape_length, renders, shots, opsVars, r3d>>

\* a thread of v3_eval_voxels_f writes the depth of its voxel
MaxVoxel(v) ==
    /\ phase = "voxels"
    /\ wk[v].pc = "max"
    /\ SetBlob(AfterKernel(Blob, VoxelMaxStep(KernelOf(Blob), v,
                                             LevelSize(NumTileStages - 1))))
    /\ UNCHANGED <<scen, view, phase, tape_length, renders, shots, opsVars, r3d>>


\* the depth image at the launch of the voxel kernel: zero but where the
\* last tile stage found a tile filled (lines 1063-1067, 1186)
PriorDepths ==
    v3_copy_filled(filled[NumTileStages - 1], ZeroImage(ImageSize), ImageSize)

\* the Z of the voxels of pixel p that a thread of an active microtile
\* evaluates and finds inside the shape
InsideDepths(p) ==
    {z \in 0..(ImageSize - 1) :
        \E v \in DOMAIN wk :
            LET c == VoxelOf(tiles[NumTileStages], v, LevelSize(NumTileStages - 1))
            IN /\ c.pxy = p
               /\ z \in {c.pz, c.pz + Half}
               /\ ShapeAt(scen, VoxelPoint(c.px, c.py, z, view)) < 0}

MaxOf(S) == CHOOSE x \in S : \A y \in S : y <= x

\* once every thread of the voxel kernel has finished, each pixel holds the
\* greatest of its depth at the launch and the Z of the voxels of active
\* microtiles that are inside the shape
FusedDepthIsMax ==
    (phase = "voxels" /\ \A v \in DOMAIN wk : wk[v].pc = "done") =>
        \A p \in DOMAIN filled[NumTileStages] :
            filled[NumTileStages][p] = MaxOf({PriorDepths[p]} \cup InsideDepths(p))
\* the kernel has finished; one thread returned early because the thread of
\* the microtile above had written the pixel, which holds that depth
WitDepthIsMax ==
    /\ phase = "voxels" /\ \A v \in DOMAIN wk : wk[v].pc = "done"
    /\ \E v, u \in DOMAIN wk :
         /\ wk[v].verdict = "skipped"
         /\ wk[u].verdict \in {"upper", "lower"}
         /\ VoxelOf(tiles[NumTileStages], v, LevelSize(NumTileStages - 1)).pxy
              = VoxelOf(tiles[NumTileStages], u, LevelSize(NumTileStages - 1)).pxy
         /\ InsideDepths(VoxelOf(tiles[NumTileStages], v,
                                 LevelSize(NumTileStages - 1)).pxy) # {}


-----------------------------------------------------------------------------
(* v3_eval_pixels_d: the normal of every pixel with a depth.  The Deriv     *)
(* type is not part of src/; it is modelled from section 4.1: a value and   *)
(* three partials with the standard rules.                                   *)

Deriv(v, dx, dy, dz) == [v |-> v, dx |-> dx, dy |-> dy, dz |-> dz]
DAdd(a, b) == Deriv(a.v + b.v, a.dx + b.dx, a.dy + b.dy, a.dz + b.dz)
DSub(a, b) == Deriv(a.v - b.v, a.dx - b.dx, a.dy - b.dy, a.dz - b.dz)
DNeg(a) == Deriv(-a.v, -a.dx, -a.dy, -a.dz)
DMul(a, b) ==
    Deriv(a.v * b.v, a.v * b.dx + b.v * a.dx, a.v * b.dy + b.v * a.dy,
          a.v * b.dz + b.v * a.dz)
DAbs(a) == IF a.v < 0 THEN DNeg(a) ELSE a
DMin(a, b) == IF a.v < b.v THEN a ELSE b
DMax(a, b) == IF a.v < b.v THEN b ELSE a

\* one clause of the switch of v3_eval_pixels_d
ClauseD(d, slots) ==
    LET lhs == slots[d.lhs]
        rhs == slots[d.rhs]
        imm == Deriv(d.imm, 0, 0, 0)
    IN CASE d.op = "GPU_OP_SQUARE_LHS" -> DMul(lhs, lhs)
         [] d.op = "GPU_OP_NEG_LHS" -> DNeg(lhs)
         [] d.op = "GPU_OP_ABS_LHS" -> DAbs(lhs)
         [] d.op = "GPU_OP_ADD_LHS_IMM" -> DAdd(lhs, imm)
         [] d.op = "GPU_OP_ADD_LHS_RHS" -> DAdd(lhs, rhs)
         [] d.op = "GPU_OP_MUL_LHS_IMM" -> DMul(lhs, imm)
         [] d.op = "GPU_OP_MUL_LHS_RHS" -> DMul(lhs, rhs)
         [] d.op = "GPU_OP_MIN_LHS_IMM" -> DMin(lhs, imm)
         [] d.op = "GPU_OP_MIN_LHS_RHS" -> DMin(lhs, rhs)
         [] d.op = "GPU_OP_MAX_LHS_IMM" -> DMax(lhs, imm)
         [] d.op = "GPU_OP_MAX_LHS_RHS" -> DMax(lhs, rhs)
         [] d.op = "GPU_OP_SUB_LHS_IMM" -> DSub(lhs, imm)
         [] d.op = "GPU_OP_SUB_IMM_RHS" -> DSub(imm, rhs)
         [] d.op = "GPU_OP_SUB_LHS_RHS" -> DSub(lhs, rhs)
         [] d.op = "GPU_OP_COPY_IMM" -> imm
         [] d.op = "GPU_OP_COPY_LHS" -> lhs
         [] d.op = "GPU_OP_COPY_RHS" -> rhs

\* lines 692-712: the three axis slots, then the three unit partials
LoadAxesD(td, pt) ==
    LET ax == td[0].ax
        s0 == [i \in 0..(NumSlots - 1) |-> Deriv(0, 0, 0, 0)]
        s1 == [s0 EXCEPT ![ax[1]] = Deriv(pt[1], 0, 0, 0)]
        s2 == [s1 EXCEPT ![ax[2]] = Deriv(pt[2], 0, 0, 0)]
        s3 == [s2 EXCEPT ![ax[3]] = Deriv(pt[3], 0, 0, 0)]
        s4 == [s3 EXCEPT ![ax[1]].dx = 1]
        s5 == [s4 EXCEPT ![ax[2]].dy = 1]
    IN [s5 EXCEPT ![ax[3]].dz = 1]

RECURSIVE FwdD(_, _, _)
FwdD(td, data, slots) ==
    LET d == td[data + 1]
    IN IF d.op = OP0 THEN slots[d.out]
       ELSE IF d.op = "GPU_OP_JUMP" THEN FwdD(td, data + 1 + d.imm, slots)
       ELSE FwdD(td, data + 1, [slots EXCEPT ![d.out] = ClauseD(d, slots)])

Isqrt(n) == CHOOSE r \in 0..n : r * r <= n /\ (r + 1) * (r + 1) > n
\* a float to uint8_t: towards zero, modulo 256
ToByte(a, b) == (IF a >= 0 THEN a \div b ELSE -((-a) \div b)) % 256

\* lines 806-814: the gradient, normalised and packed; a zero gradient
\* gives NaN, which the conversion turns into 0
EncodeNormal(r) ==
    LET norm == Isqrt(r.dx * r.dx + r.dy * r.dy + r.dz * r.dz)
    IN IF norm = 0 THEN <<0, 0, 0>>
       ELSE <<ToByte(r.dz * 127 + 128 * norm, norm), ToByte(r.dy * 127 + 128 * norm, norm),
              ToByte(r.dx * 127 + 128 * norm, norm)>>

\* voxels per side of a tile of stage i
TileSide(i) == ImageSize \div LevelSize(i)

\* lines 717-749: the tape of the deepest tile record on the way to voxel
\* (px, py, pz); idx is the index of the record of stage i.  -1 stands for
\* a record outside the array of its stage.
RECURSIVE PickTape(_, _, _, _, _, _)
PickTape(tl, i, idx, px, py, pz) ==
    IF idx >= Len(tl[i]) THEN -1
    ELSE LET rec == tl[i][idx + 1]
             sx == (px % TileSide(i)) \div TileSide(i + 1)
             sy == (py % TileSide(i)) \div TileSide(i + 1)
             sz == (pz % TileSide(i)) \div TileSide(i + 1)
         IN IF i = NumTileStages - 1 \/ rec.next = -1 THEN rec.tape
            ELSE PickTape(tl, i + 1,
                          rec.next * SubCount + sx + sy * Subdiv + sz * Subdiv * Subdiv,
                          px, py, pz)

\* what a thread writes that read its tile record from outside the array
JunkNormals == {<<0, 0, 0>>, <<255, 255, 255>>}

\* lines 692-706: the point of voxel (px, py, pz); every row of the matrix
\* is given the translation mat(0, 3) of the first row
PixelPoint(px, py, pz, m) ==
    <<VoxelCentre(px) + m[1], VoxelCentre(py) + m[1], VoxelCentre(pz) + m[1]>>

\* lines 718-722: the record of stage 0 that the thread of (px, py) reads
PixelTile(px, py, pz) ==
    (px \div TileSide(0)) + (py \div TileSide(0)) * Tps0
        + (pz \div TileSide(0)) * Tps0 * Tps0

\* v3_eval_pixels_d, all threads
v3_eval_pixels_d(td, image, output, tl, m, junk) ==
    [p \in DOMAIN output |->
        LET px == p % ImageSize
            py == p \div ImageSize
            pz == image[p] + 1
            pt == PixelPoint(px, py, pz, m)
            tile == PixelTile(px, py, pz)
            tape == PickTape(tl, 0, tile, px, py, pz)
        IN IF image[p] = 0 THEN output[p]
           ELSE IF tape = -1 THEN junk
           ELSE EncodeNormal(FwdD(td, tape, LoadAxesD(td, pt)))]

-----------------------------------------------------------------------------
(* Renders of one blob, one after the other.  Each kernel runs its threads  *)
(* one after the other, in ascending or in descending order.                *)

Orders(n) == {Ascending(n), Descending(n)}

\* v3_eval_tiles_i of the stage under way, from launch to end
RunTiles ==
    /\ phase = "tiles" /\ err = "none"
    /\ wk # <<>> /\ \A t \in DOMAIN wk : wk[t].pc = "start"
    /\ \E o \in Orders(Len(wk)), junk \in JunkIntervals, ndebug \in BOOLEAN :
         SetBlob(AfterKernel(Blob, SerialTiles(KernelOf(Blob), o, LevelSize(stage),
                                               view, junk, ndebug)))
    /\ UNCHANGED <<scen, view, phase, tape_length, renders, shots, opsVars, r3d>>

\* v3_eval_voxels_f, from launch to end
RunVoxels ==
    /\ phase = "voxels" /\ err = "none"
    /\ wk # <<>> /\ \A v \in DOMAIN wk : wk[v].pc = "start"
    /\ \E o \in Orders(Len(wk)), junk \in JunkFloats :
         SetBlob(AfterKernel(Blob, SerialVoxels(KernelOf(Blob), o,
                                                LevelSize(NumTileStages - 1), view, junk)))
    /\ UNCHANGED <<scen, view, phase, tape_length, renders, shots, opsVars, r3d>>

\* lines 1224-1239: v3_eval_pixels_d and the return of render_v3_blob
DrawNormals ==
    /\ phase = "voxels" /\ err = "none"
    /\ \A v \in DOMAIN wk : wk[v].pc = "done"
    /\ \E junk \in JunkNormals :
         LET out == v3_eval_pixels_d(tape_data, filled[NumTileStages], normals, tiles,
                                     view, junk)
         IN /\ SetBlob([Blob EXCEPT !.normals = out, !.wk = <<>>])
            /\ shots' = [shots EXCEPT ![view] =
                            @ \cup {[depth |-> filled[NumTileStages], normals |-> out]}]
    /\ phase' = "idle"
    /\ UNCHANGED <<scen, view, tape_length, renders, opsVars, r3d>>

NextRender == RenderCall \/ RunTiles \/ EndStage \/ RunVoxels \/ DrawNormals
SpecRender == InitTiles /\ [][NextRender]_vars

\* renders of a blob whose expression has folded to a constant
InitFolded == InitBlobOf(FoldedScens) /\ InitOpsIdle /\ InitR3dIdle
SpecFolded == InitFolded /\ [][NextRender]_vars

\* C14: in a render of an expression that has folded to a positive
\* constant every tile of stage 0 is classified Empty, no tile is active
\* after stage 0, and the depth image stays zero
FoldedIsEmpty ==
    (scen \in FoldedScens /\ renders > 0 /\ phase # "off") =>
        /\ (phase = "tiles" /\ stage = 0) =>
              \A t \in DOMAIN wk : wk[t].pc = "done" => wk[t].verdict = "empty"
        /\ stage >= 1 => count = 0
        /\ \A p \in DOMAIN filled[NumTileStages] : filled[NumTileStages][p] = 0

\* C3: the renders of one blob under one view all leave the same depth
\* image and the same normal image
ImagesRepeat == \A v \in Views : Cardinality(shots[v]) <= 1

\* the depth images alone
DepthsRepeat == \A v \in Views : Cardinality({s.depth : s \in shots[v]}) <= 1


-----------------------------------------------------------------------------
(* The banked pipeline (renderable.cu).  Its containers (Tape, Subtapes,    *)
(* Tiles, Queue, Filled, Image) are declared in headers that are not part   *)
(* of src/; they are modelled from sections 3, 4.2, 4.3 and 4.5.            *)

UINT16_MAX == 65535

MinMaxOps == {"OP_MIN", "OP_MAX"}

\* the place of constant node h in the constant table
ConstIndex(dag, h) == Cardinality({c \in 1..(h - 1) : dag[c].op = "CONSTANT"})

\* the banked clause of node c, before its output register is chosen
BankedClauseOf(dag, st, c) ==
    LET n == dag[c]
        lc == dag[n.lhs].op = "CONSTANT"
        rc == n.rhs # 0 /\ dag[n.rhs].op = "CONSTANT"
    IN BClause(n.op, (IF lc THEN 1 ELSE 0) + (IF rc THEN 2 ELSE 0), 0,
               IF lc THEN ConstIndex(dag, n.lhs) ELSE get_reg(st, n.lhs),
               IF n.rhs = 0 THEN 0
               ELSE IF rc THEN ConstIndex(dag, n.rhs) ELSE get_reg(st, n.rhs))

RECURSIVE EmitBanked(_, _, _)
EmitBanked(dag, st, c) ==
    IF c > Len(dag) THEN st
    ELSE IF dag[c].op = "CONSTANT" \/ dag[c].op \in {"VAR_X", "VAR_Y", "VAR_Z"}
         THEN EmitBanked(dag, st, c + 1)
         ELSE LET cl == BankedClauseOf(dag, st, c)
                  r1 == ReleaseOne(dag, st, c, dag[c].lhs)
                  r2 == ReleaseOne(dag, r1, c, dag[c].rhs)
                  s3 == getSlot(r2, c)
              IN EmitBanked(dag,
                            [s3 EXCEPT !.flat = Append(@, [cl EXCEPT !.out = s3.out])],
                            c + 1)

\* Tape::build (section 4.2): axes bound first, one clause per operator
\* node, registers reclaimed after their last reader
TapeBuild(dag) ==
    LET st0 == [free |-> <<>>, bound |-> [i \in 1..Len(dag) |-> -1], num_slots |-> 1,
                taken |-> 0, out |-> 0, ax |-> <<0, 0, 0>>, flat |-> <<>>, ub |-> FALSE,
                junk |-> 0]
        st1 == BindAxes(dag, st0, 1)
        st2 == EmitBanked(dag, st1, 1)
        cn == {c \in 1..Len(dag) : dag[c].op = "CONSTANT"}
    IN [clauses |-> st2.flat,
        num_clauses |-> Len(st2.flat),
        constants |-> [k \in 0..(Cardinality(cn) - 1) |->
                          dag[CHOOSE c \in cn : ConstIndex(dag, c) = k].value],
        axes |-> [i \in 1..3 |-> IF st1.ax[i] = 0 THEN UINT16_MAX ELSE st1.ax[i]],
        num_regs |-> st2.num_slots]

\* storeAxes: the registers of the axes that the tape uses
storeAxes(tape, vals, junk) ==
    LET put(r, k) == IF tape.axes[k] # UINT16_MAX
                     THEN [r EXCEPT ![tape.axes[k]] = vals[k]] ELSE r
    IN put(put(put([i \in 0..(NumSlots - 1) |-> junk], 1), 2), 3)

\* the switch on c.banks of the two check functions
BankedI(tape, c, regs) ==
    intervalOp(c.opcode,
               IF c.banks % 2 = 1 THEN Degenerate(tape.constants[c.lhs]) ELSE regs[c.lhs],
               IF c.banks \div 2 = 1 THEN Degenerate(tape.constants[c.rhs])
               ELSE regs[c.rhs])

\* the forward loop over the clauses cs: the registers and the choices
RECURSIVE FwdBanked(_, _, _, _)
FwdBanked(tape, cs, regs, choices) ==
    IF cs = <<>> THEN [regs |-> regs, choices |-> choices]
    ELSE LET c == Head(cs)
             r == BankedI(tape, c, regs)
         IN FwdBanked(tape, Tail(cs), [regs EXCEPT ![c.out] = r.v],
                      IF c.opcode \in MinMaxOps THEN Append(choices, r.choice)
                      ELSE choices)

\* lines 326-345, 626-651: the clauses of a chain from offset s of chunk
\* idx on, in the order in which following next meets them; bad when a
\* clause is read past the end of a chunk or the links go in a circle
RECURSIVE ChainFwd(_, _, _, _)
ChainFwd(sub, idx, s, fuel) ==
    IF s = SUBTAPE_CHUNK_SIZE
    THEN IF sub.next[idx] = 0 THEN [cs |-> <<>>, last |-> idx, bad |-> FALSE]
         ELSE IF fuel = 0 \/ sub.start[sub.next[idx]] = SUBTAPE_CHUNK_SIZE
         THEN [cs |-> <<>>, last |-> sub.next[idx], bad |-> TRUE]
         ELSE ChainFwd(sub, sub.next[idx], sub.start[sub.next[idx]], fuel - 1)
    ELSE LET r == ChainFwd(sub, idx, s + 1, fuel)
         IN [r EXCEPT !.cs = <<sub.data[idx][s]>> \o @]

\* lines 409-444: the clauses from offset in_s of chunk idx down, in the
\* order in which following prev meets them
RECURSIVE ChainBwd(_, _, _, _)
ChainBwd(sub, idx, in_s, fuel) ==
    IF in_s = sub.start[idx]
    THEN IF sub.prev[idx] = 0 \/ fuel = 0 THEN <<>>
         ELSE <<sub.data[sub.prev[idx]][SUBTAPE_CHUNK_SIZE - 1]>>
              \o ChainBwd(sub, sub.prev[idx], SUBTAPE_CHUNK_SIZE - 1, fuel - 1)
    ELSE <<sub.data[idx][in_s - 1]>> \o ChainBwd(sub, idx, in_s - 1, fuel)

\* lines 203-265 and 428-506: the backward loop over the clauses rcs (root
\* first): the clauses it writes, in the order it writes them, and the
\* terminal flag.  kind is "tile" for TileRenderer::check and "subtile" for
\* SubtileRenderer::check, which differ in where they clear the flag.
RECURSIVE BankedBwd(_, _, _, _, _)
BankedBwd(rcs, active, choices, ci, kind) ==
    IF rcs = <<>>
    THEN [evs |-> <<>>, terminal |-> TRUE, zero |-> FALSE, ci |-> ci, met |-> <<>>,
          acts |-> <<>>]
    ELSE LET c == Head(rcs)
             mm == c.opcode \in MinMaxOps
             ci2 == IF mm THEN ci - 1 ELSE ci
             choice == IF mm THEN choices[ci2 + 1] ELSE 0
             lreg == c.banks % 2 = 0
             rreg == c.banks \div 2 = 0
             off == [active EXCEPT ![c.out] = FALSE]
             on(a, i) == [a EXCEPT ![i] = TRUE]
             act == IF mm /\ choice = 1 THEN (IF lreg THEN on(off, c.lhs) ELSE off)
                    ELSE IF mm /\ choice = 2 THEN (IF rreg THEN on(off, c.rhs) ELSE off)
                    ELSE LET a1 == IF lreg THEN on(off, c.lhs) ELSE off
                         IN IF rreg /\ (mm \/ c.opcode \in BinaryOps)
                            THEN on(a1, c.rhs) ELSE a1
             elide == \/ mm /\ choice = 1 /\ lreg /\ c.lhs = c.out
                      \/ mm /\ choice = 2 /\ rreg /\ c.rhs = c.out
             w == IF mm /\ choice = 1
                  THEN [c EXCEPT !.rhs = c.lhs, !.banks = IF lreg THEN 0 ELSE 3]
                  ELSE IF mm /\ choice = 2
                  THEN [c EXCEPT !.lhs = c.rhs, !.banks = IF rreg THEN 0 ELSE 3]
                  ELSE c
             clears == IF kind = "tile" THEN mm /\ choice = 0 ELSE ~mm
             \* history: the MIN or MAX clause, the len-th from the end of
             \* the tape, has left the index at ci2
             seen == IF mm THEN <<[at |-> Len(rcs), ci |-> ci2, active |-> active[c.out]]>>
                     ELSE <<>>
         IN IF ~active[c.out]
            THEN LET rest == BankedBwd(Tail(rcs), active, choices, ci2, kind)
                 IN [rest EXCEPT !.met = seen \o @]
            ELSE LET rest == BankedBwd(Tail(rcs), act, choices, ci2, kind)
                 IN [evs |-> (IF elide THEN <<>> ELSE <<w>>) \o rest.evs,
                     terminal |-> rest.terminal /\ ~clears,
                     \* history: an active MIN or MAX had the choice 0
                     zero |-> rest.zero \/ (mm /\ choice = 0),
                     ci |-> rest.ci, met |-> seen \o rest.met,
                     \* history: what became of each clause of an active slot
                     acts |-> <<[elide |-> elide, w |-> w, from |-> c,
                                 choice |-> choice, was |-> SlotsOn(active),
                                 lit |-> SlotsOn(act)]>> \o rest.acts]

Reverse(q) == [i \in 1..Len(q) |-> q[Len(q) + 1 - i]]

\* Filled<T> of a level with ps tiles per side: per column of tiles, one
\* more than the Z index of the highest filled tile, 0 for none
isMasked(f, tile, ps) == f[unpack(tile, ps).w] > unpack(tile, ps).z + 1
FilledInsert(f, tile, ps) ==
    [f EXCEPT ![unpack(tile, ps).w] = Max2(@, unpack(tile, ps).z + 1)]
\* the top voxel of the highest filled tile over pixel (x, y)
FilledAt(f, x, y, lv) ==
    LET v == f[(x \div TileSide(lv)) + (y \div TileSide(lv)) * LevelSize(lv)]
    IN IF v = 0 THEN 0 ELSE v * TileSide(lv) - 1

\* The Renderable3D is the record b:
\*   sub     subtapes: num (the claim counter), start, next, prev, data
\*   heads   per level, per tile: head and terminal (Tiles)
\*   queues  per level, the active tiles in the order of their insertion
\*   filled  per level, the Filled mask       image  the depth image
\*   level   the level whose kernel is under way
\*   wk err  the threads of that kernel (mine: the chunks that a thread has
\*           claimed, in the order of the claims); how the process has died
\*           (root: the interval of the root that the thread classified)
BThread(pc, verdict, tile, parent) ==
    [pc |-> pc, verdict |-> verdict, tile |-> tile, parent |-> parent, evs |-> <<>>,
     cur |-> 0, mine |-> <<>>, terminal |-> FALSE, zero |-> FALSE, z |-> 0,
     root |-> <<0, 0>>, hist |-> NoHist]

\* a faulty test: a bound equal to 0 decides
ClosedVerdict(result) ==
    IF upper(result) <= 0 THEN "filled"
    ELSE IF lower(result) >= 0 THEN "empty"
    ELSE "ambiguous"

\* lines 162-175: TILE_FILLED, TILE_EMPTY, or the tile goes on to its tape
TileVerdict(result) ==
    IF upper(result) < 0 THEN "filled"
    ELSE IF lower(result) > 0 THEN "empty"
    ELSE "ambiguous"

\* storeAxes, lines 12-28: the region of a tile, scaled and moved by the
\* centre of the view
BankedRegion(pos, tps, v) ==
    LET u == unpack(pos, tps)
    IN <<Interval(TileLo(u.x, tps) - v[1], TileLo(u.x + 1, tps) - v[1]),
         Interval(TileLo(u.y, tps) - v[2], TileLo(u.y + 1, tps) - v[2]),
         Interval(TileLo(u.z, tps) - v[3], TileLo(u.z + 1, tps) - v[3])>>

\* lines 288 and 536-564: the tile of thread t and the tile it refines
BTileOf(b, t) ==
    IF b.level = 0 THEN [tile |-> t - 1, parent |-> 0]
    ELSE LET par == b.queues[b.level - 1][(t - 1) \div SubCount + 1]
             p == unpack(par, LevelSize(b.level - 1))
             d == unpack((t - 1) % SubCount, Subdiv)
             ps == LevelSize(b.level)
         IN [tile |-> (p.x * Subdiv + d.x) + (p.y * Subdiv + d.y) * ps
                        + (p.z * Subdiv + d.z) * ps * ps,
             parent |-> par]

\* the kernel's test of the masks, then check() up to the classification:
\* lines 289-290 and 109-175 at level 0, 566-567 and 317-400 below
BankedEvalStep(b, tape, t, m, junk) ==
    LET lv == b.level
        w == BTileOf(b, t)
        masked == IF lv = 0 THEN isMasked(b.filled[0], w.tile, LevelSize(0))
                  ELSE \/ isMasked(b.filled[lv - 1], w.parent, LevelSize(lv - 1))
                       \/ isMasked(b.filled[lv], w.tile, LevelSize(lv))
        head == IF lv = 0 THEN 0 ELSE b.heads[lv - 1][w.parent].head
        walk == ChainFwd(b.sub, head, b.sub.start[head], NUM_SUBTAPES)
        cs == IF lv = 0 THEN tape.clauses ELSE walk.cs
        \* history: the places of the MIN and MAX clauses in the forward order
        fcs == InOrder({k \in DOMAIN cs : cs[k].opcode \in MinMaxOps})
        f == FwdBanked(tape, IF lv = 0 THEN tape.clauses ELSE walk.cs,
                       storeAxes(tape, BankedRegion(w.tile, LevelSize(lv), m), junk),
                       <<>>)
        rootc == IF lv = 0 THEN tape.clauses[tape.num_clauses]
                 ELSE b.sub.data[walk.last][SUBTAPE_CHUNK_SIZE - 1]
        result == f.regs[rootc.out]
        bw == BankedBwd(IF lv = 0 THEN Reverse(tape.clauses)
                        ELSE ChainBwd(b.sub, walk.last, SUBTAPE_CHUNK_SIZE, NUM_SUBTAPES),
                        [i \in 0..(NumSlots - 1) |-> i = rootc.out],
                        f.choices, Len(f.choices),
                        IF lv = 0 THEN "tile" ELSE "subtile")
        th(pc, verdict) == [b.wk EXCEPT ![t] = BThread(pc, verdict, w.tile, w.parent)]
        cl(pc, verdict) == [th(pc, verdict) EXCEPT ![t].root = result]
    IN IF masked THEN [b EXCEPT !.wk = th("done", "masked")]
       ELSE IF lv > 0 /\ walk.bad THEN [b EXCEPT !.err = "out of bounds"]
       ELSE IF TileVerdict(result) = "filled" THEN [b EXCEPT !.wk = cl("fill", "filled")]
       ELSE IF TileVerdict(result) = "empty" THEN [b EXCEPT !.wk = cl("done", "empty")]
       ELSE IF lv > 0 /\ b.heads[lv - 1][w.parent].terminal
       THEN [b EXCEPT !.heads = [@ EXCEPT ![lv] = [@ EXCEPT ![w.tile] =
                                    [head |-> head, terminal |-> TRUE]]],
                      !.wk = cl("insert", "reused")]
       ELSE [b EXCEPT !.wk = [cl("claim", "ambiguous") EXCEPT
                                 ![t].evs = bw.evs, ![t].terminal = bw.terminal,
                                 ![t].zero = bw.zero,
                                 ![t].hist = [sites |-> fcs, choices |-> f.choices,
                                              passed |-> TRUE,
                                              met |-> bw.met, ci |-> bw.ci,
                                              acts |-> bw.acts]]]

\* a faulty link: the new chunk is not told which chunk follows it
LinkNothing(sub, cur, idx) ==
    [sub EXCEPT !.start = [@ EXCEPT ![cur] = 0], !.prev = [@ EXCEPT ![cur] = idx]]

\* lines 255-257, 495-497: chunk cur is full, chunk idx goes in front of it
LinkChunks(sub, cur, idx) ==
    [sub EXCEPT !.start = [@ EXCEPT ![cur] = 0], !.next = [@ EXCEPT ![idx] = cur],
                !.prev = [@ EXCEPT ![cur] = idx]]

\* one subtapes.claim() and everything up to the next one: lines 193-270
\* at level 0, 418-511 below
BankedClaimStep(b, t, ndebug) ==
    LET w == b.wk[t]
        idx == b.sub.num
        s1 == [b.sub EXCEPT !.num = @ + 1]
        s2 == IF w.cur = 0 THEN [s1 EXCEPT !.next = [@ EXCEPT ![idx] = 0]]
              ELSE LinkChunks(s1, w.cur, idx)
        n == Min2(Len(w.evs), SUBTAPE_CHUNK_SIZE)
        s3 == [s2 EXCEPT !.data = [@ EXCEPT ![idx] =
                  [k \in 0..(SUBTAPE_CHUNK_SIZE - 1) |->
                      IF k >= SUBTAPE_CHUNK_SIZE - n THEN w.evs[SUBTAPE_CHUNK_SIZE - k]
                      ELSE @[k]]]]
        rest == SubSeq(w.evs, n + 1, Len(w.evs))
        s4 == [s3 EXCEPT !.start = [@ EXCEPT ![idx] = SUBTAPE_CHUNK_SIZE - n],
                         !.prev = [@ EXCEPT ![idx] = 0]]
        b1 == [b EXCEPT !.claimed = Append(@, idx)]
    IN IF idx >= NUM_SUBTAPES /\ b.level > 0 /\ w.cur = 0 /\ ~ndebug
       THEN [b1 EXCEPT !.sub = s1, !.err = "assert"]
       ELSE IF idx >= NUM_SUBTAPES THEN [b1 EXCEPT !.sub = s1, !.err = "out of bounds"]
       ELSE IF rest = <<>>
       THEN [b1 EXCEPT !.sub = s4,
                       !.heads = [@ EXCEPT ![b.level] = [@ EXCEPT ![w.tile] =
                                     [head |-> idx, terminal |-> w.terminal]]],
                       !.wk = [@ EXCEPT ![t].pc = "insert", ![t].evs = <<>>,
                                        ![t].cur = idx, ![t].mine = Append(@, idx)]]
       ELSE [b1 EXCEPT !.sub = s3,
                       !.wk = [@ EXCEPT ![t].evs = rest, ![t].cur = idx,
                                        ![t].mine = Append(@, idx)]]

\* lines 293, 570: filled->insert(tile)
BankedFillStep(b, t) ==
    [b EXCEPT !.filled = [@ EXCEPT ![b.level] =
                            FilledInsert(@, b.wk[t].tile, LevelSize(b.level))],
              !.wk = [@ EXCEPT ![t].pc = "done"]]

\* lines 294, 571: active->insert(tile)
BankedInsertStep(b, t) ==
    [b EXCEPT !.queues = [@ EXCEPT ![b.level] = Append(@, b.wk[t].tile)],
              !.wk = [@ EXCEPT ![t].pc = "done"]]

BankedStep(b, tape, t, m, junk, ndebug) ==
    IF b.wk[t].pc = "start" THEN BankedEvalStep(b, tape, t, m, junk)
    ELSE IF b.wk[t].pc = "claim" THEN BankedClaimStep(b, t, ndebug)
    ELSE IF b.wk[t].pc = "fill" THEN BankedFillStep(b, t)
    ELSE BankedInsertStep(b, t)

\* the switch of PixelRenderer::draw: an opcode without a case leaves out
\* as it was declared, without a value
BankedF(tape, c, regs, junk) ==
    LET lhs == IF c.banks % 2 = 1 THEN tape.constants[c.lhs] ELSE regs[c.lhs]
        rhs == IF c.banks \div 2 = 1 THEN tape.constants[c.rhs] ELSE regs[c.rhs]
    IN CASE c.opcode = "OP_SQUARE" -> lhs * lhs
         [] c.opcode = "OP_NEG" -> -lhs
         [] c.opcode = "OP_ADD" -> lhs + rhs
         [] c.opcode = "OP_MUL" -> lhs * rhs
         [] c.opcode = "OP_MIN" -> Min2(lhs, rhs)
         [] c.opcode = "OP_MAX" -> Max2(lhs, rhs)
         [] c.opcode = "OP_SUB" -> lhs - rhs
         [] OTHER -> junk

RECURSIVE FwdBankedF(_, _, _, _)
FwdBankedF(tape, cs, regs, junk) ==
    IF cs = <<>> THEN regs
    ELSE FwdBankedF(tape, Tail(cs),
                    [regs EXCEPT ![Head(cs).out] = BankedF(tape, Head(cs), regs, junk)],
                    junk)

\* voxels per subtile of the last level, one thread each
PixelsPerSubtile == Pow(TileSide(NumTileStages - 1), 3)

\* lines 593-602, 705-710: the subtile and the voxel of thread t
BVoxelOf(b, t) ==
    LET lv == NumTileStages - 1
        subtile == b.queues[lv][(t - 1) \div PixelsPerSubtile + 1]
        p == unpack(subtile, LevelSize(lv))
        d == unpack((t - 1) % PixelsPerSubtile, TileSide(lv))
    IN [subtile |-> subtile,
        x |-> p.x * TileSide(lv) + d.x, y |-> p.y * TileSide(lv) + d.y,
        z |-> p.z * TileSide(lv) + d.z,
        pxy |-> (p.x * TileSide(lv) + d.x) + (p.y * TileSide(lv) + d.y) * ImageSize]

\* lines 610-622: the point of a voxel; Z is scaled and not moved
BankedVoxelPoint(c, m) ==
    <<VoxelCentre(c.x) - m[1], VoxelCentre(c.y) - m[2], VoxelCentre(c.z)>>

\* lines 605-686 and 711: the kernel's test of the mask, the early return,
\* the evaluation of the voxel
BankedPixelStep(b, tape, t, m, junk) ==
    LET lv == NumTileStages - 1
        c == BVoxelOf(b, t)
        head == b.heads[lv][c.subtile].head
        walk == ChainFwd(b.sub, head, b.sub.start[head], NUM_SUBTAPES)
        regs == FwdBankedF(tape, walk.cs,
                           storeAxes(tape, BankedVoxelPoint(c, m), junk), junk)
        value == regs[b.sub.data[walk.last][SUBTAPE_CHUNK_SIZE - 1].out]
        th(pc, verdict) ==
            [b.wk EXCEPT ![t] = [BThread(pc, verdict, c.subtile, 0) EXCEPT !.z = c.z]]
    IN IF isMasked(b.filled[lv], c.subtile, LevelSize(lv))
       THEN [b EXCEPT !.wk = th("done", "masked")]
       ELSE IF b.image[c.pxy] >= c.z THEN [b EXCEPT !.wk = th("done", "skipped")]
       ELSE IF walk.bad THEN [b EXCEPT !.err = "out of bounds"]
       ELSE IF value < 0 THEN [b EXCEPT !.wk = th("max", "inside")]
       ELSE [b EXCEPT !.wk = th("done", "outside")]

\* line 645: atomicMax(&image(p.x + d.x, p.y + d.y), p.z + d.z)
BankedMaxStep(b, t) ==
    [b EXCEPT !.image = [@ EXCEPT ![BVoxelOf(b, t).pxy] = Max2(@, b.wk[t].z)],
              !.wk = [@ EXCEPT ![t].pc = "done"]]

BStart == BThread("start", "none", 0, 0)

\* lines 1056-1094: every reset of Renderable3D::run and the launch of
\* TileRenderer_check
BankedRunStart(b) ==
    [NewR3d EXCEPT !.phase = "tiles", !.scen = b.scen, !.renders = b.renders + 1,
                   !.sub = [b.sub EXCEPT !.num = 1],
                   !.wk = [t \in 1..Pow(LevelSize(0), 3) |-> BStart]]

\* lines 1095-1163: the kernel of b.level has finished; the next launch
BankedNextLevel(b) ==
    IF b.level + 1 < NumTileStages
    THEN [b EXCEPT !.level = @ + 1,
                   !.wk = [t \in 1..(Len(b.queues[b.level]) * SubCount) |-> BStart]]
    ELSE [b EXCEPT !.phase = "pixels",
                   !.wk = [t \in 1..(Len(b.queues[b.level]) * PixelsPerSubtile) |->
                              BStart]]

\* lines 1164-1168, 857-871: copyDepthToImage
RECURSIVE MaxFilledAt(_, _, _, _)
MaxFilledAt(f, x, y, lv) ==
    IF lv < 0 THEN 0 ELSE Max2(FilledAt(f[lv], x, y, lv), MaxFilledAt(f, x, y, lv - 1))
copyDepthToImage(b) ==
    [b EXCEPT !.phase = "done", !.wk = <<>>,
              !.image = [p \in DOMAIN @ |->
                            Max2(@[p], MaxFilledAt(b.filled, p % ImageSize,
                                                   p \div ImageSize, NumTileStages - 1))]]


\* a thread of PixelRenderer::draw from where it stands
BankedPixelAny(b, tape, t, m, junk) ==
    IF b.wk[t].pc = "start" THEN BankedPixelStep(b, tape, t, m, junk)
    ELSE BankedMaxStep(b, t)

\* the threads of a kernel one after the other, each to its end
RECURSIVE BankedRunThreads(_, _, _, _, _)
BankedRunThreads(b, tape, order, m, junk) ==
    IF order = <<>> \/ b.err # "none" THEN b
    ELSE IF b.wk[Head(order)].pc = "done"
    THEN BankedRunThreads(b, tape, Tail(order), m, junk)
    ELSE BankedRunThreads(IF b.phase = "tiles"
                          THEN BankedStep(b, tape, Head(order), m, junk[1], TRUE)
                          ELSE BankedPixelAny(b, tape, Head(order), m, junk[2]),
                          tape, order, m, junk)

\* lines 1056-1163: Renderable3D::run up to the launch of the pixel kernel
RECURSIVE BankedTileStages(_, _, _, _)
BankedTileStages(b, tape, m, junk) ==
    IF b.phase # "tiles" \/ b.err # "none" THEN b
    ELSE BankedTileStages(
             BankedNextLevel(BankedRunThreads(b, tape, Ascending(Len(b.wk)), m, junk)),
             tape, m, junk)

-----------------------------------------------------------------------------
(* Renders of the banked pipeline                                            *)

\* max((((X + 1) - 1) + 1) - 1, Y + 2): six clauses, two chunks
DagLong ==
    <<NVar("VAR_X"), NConst(1),
      NBin("OP_ADD", 1, 2), NBin("OP_SUB", 3, 2), NBin("OP_ADD", 4, 2),
      NBin("OP_SUB", 5, 2),
      NVar("VAR_Y"), NConst(2), NBin("OP_ADD", 7, 8),
      NBin("OP_MAX", 6, 9)>>

\* max(X, Y): one clause
DagDiag == <<NVar("VAR_X"), NVar("VAR_Y"), NBin("OP_MAX", 1, 2)>>

\* abs(X) - 1: the slab between x = -1 and x = 1
DagAbs == <<NVar("VAR_X"), NUn("OP_ABS", 1), NConst(1), NBin("OP_SUB", 2, 3)>>

\* min(abs(X) + Z, Y + 10)
DagAbsMin ==
    <<NVar("VAR_X"), NUn("OP_ABS", 1), NVar("VAR_Z"), NBin("OP_ADD", 2, 3),
      NVar("VAR_Y"), NConst(10), NBin("OP_ADD", 5, 6),
      NBin("OP_MIN", 4, 7)>>

\* max(max(X, Y), -Z): a corner whose upper voxels are inside
DagCorner ==
    <<NVar("VAR_X"), NVar("VAR_Y"), NBin("OP_MAX", 1, 2),
      NVar("VAR_Z"), NUn("OP_NEG", 4),
      NBin("OP_MAX", 3, 5)>>

\* the renders: an expression and the centre of the view
BScen(dag, center) == [dag |-> dag, center |-> center]
\* max(X + 1, Y - 5): the tile cannot choose; the subtiles with X and Y
\* below 0 choose X + 1 and cross the surface
DagShift ==
    <<NVar("VAR_X"), NConst(1), NBin("OP_ADD", 1, 2),
      NVar("VAR_Y"), NConst(5), NBin("OP_SUB", 4, 5),
      NBin("OP_MAX", 3, 6)>>

BScens ==
    <<BScen(DagLong, <<-1, 0, 0>>), BScen(DagDiag, <<-1, -1, 0>>),
      BScen(DagAbs, <<0, 0, 0>>), BScen(DagAbsMin, <<0, 0, -1>>),
      BScen(DagCorner, <<-1, -1, 1>>), BScen(DagShift, <<0, 0, 0>>)>>
BTapes == [i \in DOMAIN BScens |-> TapeBuild(BScens[i].dag)]

InitBlobIdle ==
    /\ scen = 1 /\ view = <<0, 0, 0>> /\ phase = "off" /\ tape_length = 0
    /\ tape_data = <<>> /\ tape_index = 0 /\ tiles = <<>> /\ filled = <<>>
    /\ count = 0 /\ stage = 0 /\ wk = <<>> /\ err = "none" /\ claimed = <<>>
    /\ log = <<>> /\ normals = <<>> /\ renders = 0 /\ shots = [v \in Views \cup FoldedViews |-> {}]

InitV3Idle == InitBlobIdle /\ InitOpsIdle

InitBanked ==
    /\ \E i \in DOMAIN BScens : r3d = [NewR3d EXCEPT !.scen = i]
    /\ InitV3Idle

BankedLive == r3d.phase = "tiles" /\ r3d.err = "none"

\* Renderable3D::run is called
BankedRun ==
    /\ r3d.phase \in {"idle", "done"} /\ r3d.renders < MaxRenders
    /\ r3d' = BankedRunStart(r3d)
    /\ UNCHANGED <<opsVars, v3Vars>>

\* a thread of a check kernel tests the masks and classifies its tile
BankedEval(t) ==
    /\ BankedLive /\ r3d.wk[t].pc = "start"
    /\ \E junk \in JunkIntervals :
         r3d' = BankedEvalStep(r3d, BTapes[r3d.scen], t, BScens[r3d.scen].center, junk)
    /\ UNCHANGED <<opsVars, v3Vars>>

\* a thread claims a chunk and writes into it
BankedClaim(t) ==
    /\ BankedLive /\ r3d.wk[t].pc = "claim"
    /\ \E ndebug \in BOOLEAN : r3d' = BankedClaimStep(r3d, t, ndebug)
    /\ UNCHANGED <<opsVars, v3Vars>>

BankedFill(t) ==
    /\ BankedLive /\ r3d.wk[t].pc = "fill"
    /\ r3d' = BankedFillStep(r3d, t)
    /\ UNCHANGED <<opsVars, v3Vars>>

BankedInsert(t) ==
    /\ BankedLive /\ r3d.wk[t].pc = "insert"
    /\ r3d' = BankedInsertStep(r3d, t)
    /\ UNCHANGED <<opsVars, v3Vars>>

\* the kernel of a level has finished: the next one is launched
BankedEndLevel ==
    /\ BankedLive /\ \A t \in DOMAIN r3d.wk : r3d.wk[t].pc = "done"
    /\ r3d' = BankedNextLevel(r3d)
    /\ UNCHANGED <<opsVars, v3Vars>>

\* the pixel kernel, its threads in some order, and copyDepthToImage
BankedDraw ==
    /\ r3d.phase = "pixels" /\ r3d.err = "none"
    /\ \E order \in Orders(Len(r3d.wk)), junk \in JunkFloats :
         LET r == BankedRunThreads(r3d, BTapes[r3d.scen], order,
                                   BScens[r3d.scen].center, <<<<0, 0>>, junk>>)
         IN r3d' = IF r.err = "none" THEN copyDepthToImage(r) ELSE r
    /\ UNCHANGED <<opsVars, v3Vars>>

NextBanked ==
    \/ BankedRun
    \/ \E t \in DOMAIN r3d.wk : BankedEval(t)
    \/ \E t \in DOMAIN r3d.wk : BankedClaim(t)
    \/ \E t \in DOMAIN r3d.wk : BankedFill(t)
    \/ \E t \in DOMAIN r3d.wk : BankedInsert(t)
    \/ BankedEndLevel
    \/ BankedDraw
SpecBanked == InitBanked /\ [][NextBanked]_vars

-----------------------------------------------------------------------------
(* The pixel stages of both pipelines with their threads interleaved.  The   *)
(* banked image is reset at the start of a render (line 1057) and written   *)
(* by the pixel kernel first, so its depth at the launch is 0 everywhere.   *)

\* the most threads of PixelRenderer_draw explored thread by thread
MaxPixelThreads == 8

\* a render of either pipeline
InitVoxels == InitTiles \/ InitBanked

\* a thread of PixelRenderer_draw tests the mask, reads the depth of its
\* pixel and, unless that is its own Z or more, evaluates its voxel
BankedPixel(t) ==
    /\ r3d.phase = "pixels" /\ r3d.err = "none" /\ Len(r3d.wk) <= MaxPixelThreads
    /\ r3d.wk[t].pc = "start"
    /\ \E junk \in JunkFloats :
         r3d' = BankedPixelStep(r3d, BTapes[r3d.scen], t, BScens[r3d.scen].center, junk)
    /\ UNCHANGED <<opsVars, v3Vars>>

\* a thread of PixelRenderer_draw writes the depth of its voxel
BankedMax(t) ==
    /\ r3d.phase = "pixels" /\ r3d.err = "none" /\ r3d.wk[t].pc = "max"
    /\ r3d' = BankedMaxStep(r3d, t)
    /\ UNCHANGED <<opsVars, v3Vars>>

\* the tile stages as in SpecRender and SpecBanked, then the threads of the
\* pixel stage one step at a time
NextVoxels ==
    \/ RenderCall
    \/ RunTiles
    \/ EndStage
    \/ \E v \in DOMAIN wk : EvalVoxels(v)
    \/ \E v \in DOMAIN wk : MaxVoxel(v)
    \/ BankedRun
    \/ \E t \in DOMAIN r3d.wk : BankedEval(t)
    \/ \E t \in DOMAIN r3d.wk : BankedClaim(t)
    \/ \E t \in DOMAIN r3d.wk : BankedFill(t)
    \/ \E t \in DOMAIN r3d.wk : BankedInsert(t)
    \/ BankedEndLevel
    \/ \E t \in DOMAIN r3d.wk : BankedPixel(t)
    \/ \E t \in DOMAIN r3d.wk : BankedMax(t)
SpecVoxels == InitVoxels /\ [][NextVoxels]_vars

\* the Z of the voxels of pixel p that a thread of an active subtile finds
\* inside the shape when it evaluates them
BankedInsideDepths(p) ==
    {z \in 0..(ImageSize - 1) :
        \E t \in DOMAIN r3d.wk :
            LET c == BVoxelOf(r3d, t)
            IN /\ c.pxy = p /\ c.z = z
               /\ ~isMasked(r3d.filled[NumTileStages - 1], c.subtile,
                            LevelSize(NumTileStages - 1))
               /\ EvalNode(BScens[r3d.scen].dag, Len(BScens[r3d.scen].dag),
                           BankedVoxelPoint(c, BScens[r3d.scen].center)) < 0}

BankedDepthIsMax ==
    (r3d.phase = "pixels" /\ r3d.err = "none"
        /\ \A t \in DOMAIN r3d.wk : r3d.wk[t].pc = "done") =>
        \A p \in DOMAIN r3d.image :
            r3d.image[p] = MaxOf({0} \cup BankedInsideDepths(p))

\* C4: once every thread of the pixel stage has finished, each pixel holds
\* the greatest of its depth at the launch and the Z of the voxels of
\* active microtiles whose value is negative, whatever the order in which
\* the threads ran and whichever of them returned early
InvDepthIsMax == FusedDepthIsMax /\ BankedDepthIsMax

\* the banked pixel kernel has finished; the thread of a voxel inside the
\* shape returned early because the thread of the voxel above had written
\* the pixel
WitBankedDepthIsMax ==
    /\ r3d.phase = "pixels" /\ \A t \in DOMAIN r3d.wk : r3d.wk[t].pc = "done"
    /\ \E t, u \in DOMAIN r3d.wk :
         /\ r3d.wk[t].verdict = "skipped" /\ r3d.wk[u].verdict = "inside"
         /\ BVoxelOf(r3d, t).pxy = BVoxelOf(r3d, u).pxy
         /\ BVoxelOf(r3d, t).z > 0
         /\ BVoxelOf(r3d, t).z \in BankedInsideDepths(BVoxelOf(r3d, t).pxy)

-----------------------------------------------------------------------------
(* Properties of the banked tile stages                                      *)

SeqRange(q) == {q[i] : i \in DOMAIN q}

\* the chunks met from chunk idx on by following next, and by following prev
RECURSIVE ChunksFwd(_, _, _)
ChunksFwd(sub, idx, fuel) ==
    IF sub.next[idx] = 0 \/ fuel = 0 THEN <<idx>>
    ELSE <<idx>> \o ChunksFwd(sub, sub.next[idx], fuel - 1)
RECURSIVE ChunksBwd(_, _, _)
ChunksBwd(sub, idx, fuel) ==
    IF sub.prev[idx] = 0 \/ fuel = 0 THEN <<idx>>
    ELSE <<idx>> \o ChunksBwd(sub, sub.prev[idx], fuel - 1)

\* the tiles that a check kernel of this render has queued, with their level
QueuedTiles ==
    IF r3d.phase \in {"tiles", "pixels", "done"}
    THEN {e \in (0..(NumTileStages - 1)) \X (0..(Pow(ImageSize, 3) - 1)) :
             e[2] \in SeqRange(r3d.queues[e[1]])}
    ELSE {}
QueuedHead(e) == r3d.heads[e[1]][e[2]].head
QueuedChain(e) == ChunksFwd(r3d.sub, QueuedHead(e), NUM_SUBTAPES)
QueuedClauses(e) == ChainFwd(r3d.sub, QueuedHead(e), r3d.sub.start[QueuedHead(e)], NUM_SUBTAPES).cs

\* C5: while the pool is not exhausted, the chain of every queued tile
\* leads by next from its head to a chunk with next = 0 and by prev from
\* that chunk back to the head, whose prev is 0; next and prev are inverse
\* along it, no chunk occurs twice, and chains with different heads have
\* no chunk in common; the chain that a thread has written consists of the
\* chunks that the thread claimed, the last one first
InvChainIntegrity ==
    (r3d.phase # "off" /\ r3d.err = "none" /\ r3d.sub.num <= NUM_SUBTAPES) =>
        /\ r3d.phase = "tiles" =>
              \A t \in DOMAIN r3d.wk :
                  (r3d.wk[t].verdict = "ambiguous" /\ r3d.wk[t].pc \in {"insert", "done"})
                      => ChunksFwd(r3d.sub, r3d.heads[r3d.level][r3d.wk[t].tile].head,
                                   NUM_SUBTAPES) = Reverse(r3d.wk[t].mine)
        /\ \A e \in QueuedTiles :
              LET f == QueuedChain(e)
              IN /\ r3d.sub.next[f[Len(f)]] = 0
                 /\ r3d.sub.prev[QueuedHead(e)] = 0
                 /\ ChunksBwd(r3d.sub, f[Len(f)], NUM_SUBTAPES) = Reverse(f)
                 /\ \A i \in 1..(Len(f) - 1) : r3d.sub.prev[f[i + 1]] = f[i]
                 /\ Cardinality(SeqRange(f)) = Len(f)
                 /\ SeqRange(f) \subseteq 1..(r3d.sub.num - 1)
        /\ \A e1, e2 \in QueuedTiles :
              QueuedHead(e1) # QueuedHead(e2) =>
                  SeqRange(QueuedChain(e1)) \cap SeqRange(QueuedChain(e2)) = {}
\* the tile stages are over; two subtiles wrote chains of two chunks each
\* and took their chunks in turn
WitChainIntegrity ==
    /\ r3d.phase = "pixels" /\ r3d.err = "none"
    /\ \E e1, e2 \in QueuedTiles :
         /\ e1[1] = NumTileStages - 1 /\ e2[1] = NumTileStages - 1
         /\ Len(QueuedChain(e1)) = 2 /\ Len(QueuedChain(e2)) = 2
         /\ QueuedChain(e1)[2] < QueuedChain(e2)[2]
         /\ QueuedChain(e2)[2] < QueuedChain(e1)[1]

\* C8: a queued tile whose terminal flag is set has no MIN or MAX clause
\* in its chain that still chooses between two operands
TerminalHasNoChoice ==
    \A e \in QueuedTiles :
        r3d.heads[e[1]][e[2]].terminal =>
            \A i \in DOMAIN QueuedClauses(e) :
                LET c == QueuedClauses(e)[i]
                IN c.opcode \in MinMaxOps => (c.lhs = c.rhs /\ c.banks \in {0, 3})

\* C15: a tile that a check has specialized without meeting an active MIN
\* or MAX of choice 0 has its chain flagged terminal
UnambiguousIsTerminal ==
    (r3d.phase = "tiles" /\ r3d.err = "none") =>
        \A t \in DOMAIN r3d.wk :
            (/\ r3d.wk[t].verdict = "ambiguous"
             /\ r3d.wk[t].pc \in {"insert", "done"}
             /\ ~r3d.wk[t].zero)
                => r3d.heads[r3d.level][r3d.wk[t].tile].terminal

\* what the claim expects of a tile whose root interval is root
Expected(root) ==
    IF upper(root) < 0 THEN "filled" ELSE IF lower(root) > 0 THEN "empty" ELSE "ambiguous"

\* the fused kernel: the threads that did not find their tile hidden
FusedVerdicts ==
    (phase = "tiles" /\ err = "none") =>
        \A t \in DOMAIN wk :
            (wk[t].pc # "start" /\ wk[t].verdict \notin {"skipped", "masked"}) =>
                \A junk \in JunkIntervals :
                    LET root == EvalI(tape_data, wk[t].parent, RegionOfThread(t),
                                      junk).result
                    IN /\ lower(root) <= upper(root)
                       /\ (wk[t].verdict = "filled") = (Expected(root) = "filled")
                       /\ (wk[t].verdict = "empty") = (Expected(root) = "empty")
                       /\ (wk[t].verdict \in {"ambiguous", "specialized"})
                              = (Expected(root) = "ambiguous")
                       /\ (wk[t].pc = "claim" \/ wk[t].verdict = "specialized")
                              => Expected(root) = "ambiguous"

\* the banked check kernels
BankedVerdicts ==
    (r3d.phase = "tiles" /\ r3d.err = "none") =>
        \A t \in DOMAIN r3d.wk :
            (r3d.wk[t].pc # "start" /\ r3d.wk[t].verdict # "masked") =>
                LET root == r3d.wk[t].root
                IN /\ lower(root) <= upper(root)
                   /\ (r3d.wk[t].verdict = "filled") = (Expected(root) = "filled")
                   /\ (r3d.wk[t].verdict = "empty") = (Expected(root) = "empty")
                   /\ (r3d.wk[t].verdict \in {"ambiguous", "reused"})
                          = (Expected(root) = "ambiguous")
                   /\ r3d.wk[t].pc = "claim"
                          => Expected(root) = "ambiguous"

\* the value of a clause at a point, and of a sequence of clauses
BankedP(tape, c, regs) ==
    IF c.opcode \notin ModelOps THEN 0
    ELSE PointOp(c.opcode,
                 IF c.banks % 2 = 1 THEN tape.constants[c.lhs] ELSE regs[c.lhs],
                 IF c.banks \div 2 = 1 THEN tape.constants[c.rhs] ELSE regs[c.rhs])
RECURSIVE FwdBankedP(_, _, _)
FwdBankedP(tape, cs, regs) ==
    IF cs = <<>> THEN regs
    ELSE FwdBankedP(tape, Tail(cs),
                    [regs EXCEPT ![Head(cs).out] = BankedP(tape, Head(cs), regs)])
RootValue(tape, cs, pt) == FwdBankedP(tape, cs, storeAxes(tape, pt, 0))[cs[Len(cs)].out]

\* C1 (banked pipeline): the chain of every queued tile has, at every point
\* of the tile, the value of the whole tape
BankedEquivalent ==
    \A e \in QueuedTiles :
        \A pt \in PointsOf(BankedRegion(e[2], LevelSize(e[1]), BScens[r3d.scen].center)) :
            RootValue(BTapes[r3d.scen], QueuedClauses(e), pt)
                = RootValue(BTapes[r3d.scen], BTapes[r3d.scen].clauses, pt)

\* C2 (banked pipeline): the expression is negative all over a tile that a
\* check kernel found filled, and positive all over one it found empty
BankedSound ==
    (r3d.phase = "tiles" /\ r3d.err = "none") =>
        \A t \in DOMAIN r3d.wk :
            r3d.wk[t].verdict \in {"filled", "empty"} =>
                \A pt \in PointsOf(BankedRegion(r3d.wk[t].tile, LevelSize(r3d.level),
                                                BScens[r3d.scen].center)) :
                    LET v == EvalNode(BScens[r3d.scen].dag, Len(BScens[r3d.scen].dag), pt)
                    IN IF r3d.wk[t].verdict = "filled" THEN v < 0 ELSE v > 0

-----------------------------------------------------------------------------
(* The interval evaluators applied to one operator and a pair of intervals  *)

Vals == (-MaxVal)..MaxVal
Intervals == {<<l, u>> \in Vals \X Vals : l <= u}

InitOps ==
    /\ \E op \in ModelOps, a \in Intervals, b \in Intervals :
         opq = [op |-> op, lhs |-> a, rhs |-> b, by |-> "none", v |-> <<0, 0>>,
                choice |-> 0, fatal |-> FALSE]
    /\ bld = NoBuild
    /\ surf = NoSurface
    /\ cls = NoVerdict
    /\ spz = NoSpz
    /\ cpt = NoCompact
    /\ chb = NoChoices
    /\ geo = NoGeo
    /\ InitBlobIdle /\ InitR3dIdle

\* the clause of TileRenderer::check: intervalOp on two registers
ApplyBanked ==
    /\ opq.by = "none" /\ opq.op # "none"
    /\ LET r == intervalOp(opq.op, opq.lhs, opq.rhs)
       IN opq' = [opq EXCEPT !.by = "banked", !.v = r.v, !.choice = r.choice]
    /\ UNCHANGED <<bld, surf, cls, spz, cpt, chb, geo, v3Vars, r3d>>

\* the clause of v3_eval_tiles_i: the switch on the fused opcode
ApplyFused ==
    /\ opq.by = "none" /\ opq.op # "none"
    /\ LET form == IF opq.op \in UnaryOps THEN "_LHS" ELSE "_LHS_RHS"
           r == ClauseI(Word(GpuName(opq.op, form), 1, 2, 3, 0),
                        [i \in 0..3 |-> IF i = 1 THEN opq.lhs ELSE opq.rhs])
       IN IF opq.op \in UnsupportedOps
          \* line 172, default: assert(false): the kernel stops, or in a build
          \* without asserts goes on to the next clause
          THEN \E ndebug \in BOOLEAN :
                  opq' = [opq EXCEPT !.by = "fused", !.fatal = ~ndebug]
          ELSE opq' = [opq EXCEPT !.by = "fused", !.v = r.v, !.choice = r.choice]
    /\ UNCHANGED <<bld, surf, cls, spz, cpt, chb, geo, v3Vars, r3d>>

\* the clause of walkI (lib/renderable.hpp): the switch writes regs[c.out],
\* which holds what it held before when no case matches
ApplyOld ==
    /\ opq.by = "none" /\ opq.op # "none"
    /\ LET r == walkIOp(opq.op, opq.lhs, opq.rhs, [v |-> opq.v, choice |-> opq.choice])
       IN opq' = [opq EXCEPT !.by = "old", !.v = r.v, !.choice = r.choice]
    /\ UNCHANGED <<bld, surf, cls, spz, cpt, chb, geo, v3Vars, r3d>>

NextOps == ApplyBanked \/ ApplyFused \/ ApplyOld
SpecOps == InitOps /\ [][NextOps]_vars

\* a clause whose opcode no evaluator has a case for, and an output
\* register that holds something from an earlier clause
StaleValues == {<<0, 0>>, <<1, 2>>}
InitUnsupported ==
    /\ \E op \in UnsupportedOps, a \in Intervals, b \in Intervals, was \in StaleValues :
         opq = [op |-> op, lhs |-> a, rhs |-> b, by |-> "none", v |-> was,
                choice |-> 0, fatal |-> FALSE]
    /\ bld = NoBuild
    /\ surf = NoSurface
    /\ cls = NoVerdict
    /\ spz = NoSpz
    /\ cpt = NoCompact
    /\ chb = NoChoices
    /\ geo = NoGeo
    /\ InitBlobIdle /\ InitR3dIdle
SpecUnsupported == InitUnsupported /\ [][NextOps]_vars

\* C30: when an evaluator meets a clause with an opcode outside the
\* supported set, the evaluation stops there: the clause is not passed
\* over, its output register is not left as it was, and no value is put
\* in it
UnsupportedIsFatal ==
    (opq.op \in UnsupportedOps /\ opq.by # "none") => opq.fatal

\* C10: the value of the operator at any point of the inputs lies inside
\* the interval that the evaluator returns
IntervalSound ==
    opq.by # "none" =>
        \A x \in lower(opq.lhs)..upper(opq.lhs), y \in lower(opq.rhs)..upper(opq.rhs) :
            /\ lower(opq.v) <= PointOp(opq.op, x, y)
            /\ PointOp(opq.op, x, y) <= upper(opq.v)

\* the same of the fused evaluator alone
FusedIntervalSound == opq.by = "fused" => IntervalSound

\* C23: the interval MIN returns choice 1 exactly when upper(lhs) <
\* lower(rhs) and choice 2 exactly when upper(rhs) < lower(lhs); the
\* interval MAX returns 1 exactly when lower(lhs) > upper(rhs) and 2 exactly
\* when lower(rhs) > upper(lhs); every other pair of operands, touching and
\* equal degenerate intervals included, gives 0; with choice 1 the result is
\* the LHS interval, with choice 2 the RHS interval
ChoiceByBounds ==
    (opq.by # "none" /\ opq.op \in MinMaxOps) =>
        LET a == opq.lhs
            b == opq.rhs
            one == IF opq.op = "OP_MIN" THEN upper(a) < lower(b)
                   ELSE lower(a) > upper(b)
            two == IF opq.op = "OP_MIN" THEN upper(b) < lower(a)
                   ELSE lower(b) > upper(a)
        IN /\ (opq.choice = 1) = one
           /\ (opq.choice = 2) = two
           /\ (opq.choice = 0) = (~one /\ ~two)
           /\ opq.choice = 1 => opq.v = a
           /\ opq.choice = 2 => opq.v = b
\* two intervals that touch in one point have given the choice 0
WitChoiceByBounds ==
    /\ opq.by # "none" /\ opq.op \in MinMaxOps
    /\ upper(opq.lhs) = lower(opq.rhs) /\ lower(opq.lhs) < upper(opq.rhs)
    /\ opq.choice = 0

-----------------------------------------------------------------------------
(* Tape::build of lib/renderable.hpp: the tape compiler of the first        *)
(* implementation.  Constants go to a table of their own; every other node, *)
(* the axes included, gets a clause and a register.                          *)

\* last_used.insert({h, c}) keeps the entry that is there already: the
\* first non-constant node that names h as an operand
FirstUsed(dag, h) ==
    LET users == {c \in 1..Len(dag) :
                    dag[c].op # "CONSTANT" /\ (dag[c].lhs = h \/ dag[c].rhs = h)}
    IN IF users = {} THEN 0 ELSE CHOOSE c \in users : \A d \in users : c <= d

\* "Pick a registers for the output of this opcode": num_registers is a
\* uint16_t that starts at 0
PickRegister(st, id) ==
    IF Len(st.free) > 0
    THEN [st EXCEPT !.bound = [@ EXCEPT ![id] = st.free[Len(st.free)]],
                    !.free = SubSeq(st.free, 1, Len(st.free) - 1),
                    !.out = st.free[Len(st.free)]]
    ELSE [st EXCEPT !.bound = [@ EXCEPT ![id] = st.num],
                    !.num = (st.num + 1) % 65536,
                    !.taken = @ + 1,
                    !.out = st.num]

\* the lambda f: the index of an operand, and whether it is a constant
OperandOf(dag, st, id) ==
    IF id = 0 THEN [i |-> 0, const |-> FALSE]
    ELSE IF dag[id].op = "CONSTANT" THEN [i |-> ConstIndex(dag, id), const |-> TRUE]
    ELSE IF st.bound[id] # -1 THEN [i |-> st.bound[id], const |-> FALSE]
    ELSE [i |-> 0, const |-> FALSE]     \* "Could not find bound register"

\* "Release registers if this was their last use", for one operand h
ReleaseRegister(dag, st, c, h) ==
    IF h # 0 /\ dag[h].op # "CONSTANT" /\ FirstUsed(dag, h) = c
    THEN IF st.bound[h] # -1
         THEN [st EXCEPT !.free = Append(@, st.bound[h]),
                         !.bound = [@ EXCEPT ![h] = -1]]
         \* find() returned end(): what itr->second reads there is pushed
         ELSE [st EXCEPT !.ub = TRUE, !.free = Append(@, st.junk)]
    ELSE st

\* the body of the second loop over ordered, for node c
EmitRegister(dag, st, c) ==
    IF dag[c].op = "CONSTANT" THEN st
    ELSE LET s1 == PickRegister(st, c)
             l == OperandOf(dag, s1, dag[c].lhs)
             r == IF dag[c].rhs # 0 THEN OperandOf(dag, s1, dag[c].rhs)
                  ELSE [i |-> l.i, const |-> FALSE]
             cl == BClause(dag[c].op,
                           (IF l.const THEN 1 ELSE 0) + (IF r.const THEN 2 ELSE 0),
                           s1.out, l.i, r.i)
             s2 == [s1 EXCEPT !.flat = Append(@, cl)]
             r1 == ReleaseRegister(dag, s2, c, dag[c].lhs)
             r2 == ReleaseRegister(dag, r1, c, dag[c].rhs)
         IN r2

\* registers before the second loop
NoRegisters(dag) ==
    [free |-> <<>>, bound |-> [i \in 1..Len(dag) |-> -1], num |-> 0,
     taken |-> 0, out |-> 0, flat |-> <<>>, ub |-> FALSE, junk |-> 0]

-----------------------------------------------------------------------------
(* The tape compilers applied to one DAG                                     *)

\* the longest chain of the DAGs below: the number of values that are live
\* at once
MaxChain == 258

\* X, n nodes a1 = -X, a2 = -a1, ... and the sum an + (... + (a2 + a1)) in
\* depth-first order: every a is live until the sums start
ChainDag(n) ==
    [i \in 1..(2 * n) |->
        IF i = 1 THEN NVar("VAR_X")
        ELSE IF i <= n + 1 THEN NUn("OP_NEG", i - 1)
        ELSE IF i = n + 2 THEN NBin("OP_ADD", 3, 2)
        ELSE NBin("OP_ADD", i - n + 1, i - 1)]
ChainLens ==
    (1..4) \cup ((NumSlots - 2)..(NumSlots - 1)) \cup ((MaxChain - 3)..MaxChain)

\* an unsupported node over the axes: as the root, and below an addition
LeafOps == {"VAR_FREE", "ORACLE"}
OneOperandOps == {"OP_TAN", "OP_RECIP", "CONST_VAR"}
UnsupportedNode(op) ==
    IF op \in LeafOps THEN Node(op, 0, 0, 0)
    ELSE IF op \in OneOperandOps THEN NUn(op, 1)
    ELSE NBin(op, 1, 2)
UnsupportedDags ==
    UNION {{<<NVar("VAR_X"), NVar("VAR_Y"), UnsupportedNode(op)>>,
            <<NVar("VAR_X"), NVar("VAR_Y"), UnsupportedNode(op), NBin("OP_ADD", 3, 2)>>}
           : op \in UnsupportedOps \ {"INVALID", "LAST_OP"}}

\* a sum used twice by one clause and not again; a node subtracted from
\* itself while a shared node stays live
SelfDags ==
    {<<NVar("VAR_X"), NVar("VAR_Y"), NBin("OP_ADD", 1, 2), NBin("OP_MUL", 3, 3),
       NBin("OP_MIN", 4, 1), NUn("OP_NEG", 5)>>,
     <<NVar("VAR_X"), NUn("OP_NEG", 1), NBin("OP_SUB", 2, 2), NBin("OP_ADD", 3, 1),
       NBin("OP_MAX", 4, 1)>>}

\* what the dereferenced end() of a map can hold where a slot would be
JunkSlots == {0, 1, 2}

\* the tree of an axis, and the tree of a constant
LeafDags == {<<NVar("VAR_Y")>>, <<NConst(1)>>}

BuildDags ==
    {ChainDag(n) : n \in ChainLens} \cup UnsupportedDags \cup SelfDags \cup LeafDags
        \cup {Dags[i] : i \in DOMAIN Dags} \cup {BScens[i].dag : i \in DOMAIN BScens}

\* the nodes up to c that have a clause in the tape
Emitted(dag, c, skip) == Cardinality({d \in 1..c : dag[d].op \notin skip})

\* the slot that build_v3_blob gave to each node (-1: a constant)
OutsFused(dag, flat) ==
    [c \in 1..Len(dag) |->
        IF dag[c].op = "CONSTANT" THEN -1
        ELSE IF dag[c].op = "VAR_X" THEN flat[1].ax[1]
        ELSE IF dag[c].op = "VAR_Y" THEN flat[1].ax[2]
        ELSE IF dag[c].op = "VAR_Z" THEN flat[1].ax[3]
        ELSE flat[1 + Emitted(dag, c, {"CONSTANT", "VAR_X", "VAR_Y", "VAR_Z"})].out]

\* the register that Tape::build gave to each node (-1: a constant)
OutsOld(dag, flat) ==
    [c \in 1..Len(dag) |->
        IF dag[c].op = "CONSTANT" THEN -1
        ELSE flat[Emitted(dag, c, {"CONSTANT"})].out]

InitBuild ==
    /\ \E d \in BuildDags : bld = [NoBuild EXCEPT !.phase = "idle", !.dag = d]
    /\ opq = [op |-> "none", lhs |-> <<0, 0>>, rhs |-> <<0, 0>>, by |-> "none",
              v |-> <<0, 0>>, choice |-> 0, fatal |-> FALSE]
    /\ surf = NoSurface
    /\ cls = NoVerdict
    /\ spz = NoSpz
    /\ cpt = NoCompact
    /\ chb = NoChoices
    /\ geo = NoGeo
    /\ InitBlobIdle /\ InitR3dIdle

\* build_v3_blob up to its loop over ordered: the axes are bound
BuildFused ==
    /\ bld.phase = "idle"
    /\ bld' = [bld EXCEPT !.phase = "loop", !.by = "v3", !.c = 1,
                          !.st = BindAxes(bld.dag, NoSlots(bld.dag), 1)]
    /\ UNCHANGED <<opq, surf, cls, spz, cpt, chb, geo, v3Vars, r3d>>

\* Tape::build up to its second loop over ordered
BuildOld ==
    /\ bld.phase = "idle"
    /\ bld' = [bld EXCEPT !.phase = "loop", !.by = "old", !.c = 1,
                          !.st = NoRegisters(bld.dag)]
    /\ UNCHANGED <<opq, surf, cls, spz, cpt, chb, geo, v3Vars, r3d>>

\* one pass of the loop over ordered
BuildNode ==
    /\ bld.phase = "loop" /\ bld.c <= Len(bld.dag)
    /\ \E junk \in JunkSlots, dies \in BOOLEAN :
         LET s0 == [bld.st EXCEPT !.junk = junk]
             s1 == IF bld.by = "v3" THEN EmitClause(bld.dag, s0, bld.c)
                   ELSE EmitRegister(bld.dag, s0, bld.c)
         IN IF s1.ub /\ ~bld.st.ub /\ dies
            THEN bld' = [bld EXCEPT !.phase = "crashed", !.ub = TRUE]
            ELSE bld' = [bld EXCEPT !.c = @ + 1, !.st = [s1 EXCEPT !.junk = 0]]
    /\ UNCHANGED <<opq, surf, cls, spz, cpt, chb, geo, v3Vars, r3d>>

\* after the loop either compiler copies flat to the device and returns,
\* whatever the DAG held
BuildReturn ==
    /\ bld.phase = "loop" /\ bld.c > Len(bld.dag)
    /\ LET flat == IF bld.by = "v3" THEN FlatOf(bld.dag, bld.st) ELSE bld.st.flat
       IN bld' = [bld EXCEPT !.phase = "built", !.flat = flat,
                             !.outs = IF bld.by = "v3" THEN OutsFused(bld.dag, flat)
                                      ELSE OutsOld(bld.dag, flat),
                             !.taken = bld.st.taken, !.ub = bld.st.ub,
                             !.st = <<>>]
    /\ UNCHANGED <<opq, surf, cls, spz, cpt, chb, geo, v3Vars, r3d>>

NextBuild == BuildFused \/ BuildOld \/ BuildNode \/ BuildReturn
SpecBuild == InitBuild /\ [][NextBuild]_vars

\* C11: a DAG with an unsupported opcode is never built into a tape
UnsupportedFailsBuild ==
    (\E c \in DOMAIN bld.dag : bld.dag[c].op \in UnsupportedOps) => bld.phase # "built"

\* the slots that the counter of the compiler can hand out
SlotLimit == [v3 |-> 255, old |-> 65535]

\* C12: no compiler returns a tape for which its slot counter has handed
\* out more slots than it can count, and in a fused tape no two nodes share
\* a slot when the earlier one is read after the later one is bound
TooManySlotsFails ==
    (bld.phase = "built" /\ ~bld.ub) =>
        /\ bld.taken <= SlotLimit[bld.by]
        /\ bld.by = "v3" =>
             LET last == [d \in DOMAIN bld.dag |-> LastUsed(bld.dag, d)]
             IN \A c \in DOMAIN bld.dag : \A d \in 1..(c - 1) :
                    (bld.outs[d] # -1 /\ bld.outs[c] # -1 /\ last[d] > c)
                        => bld.outs[d] # bld.outs[c]

-----------------------------------------------------------------------------
(* Copies of the banked images to a surface of texture_size texels per      *)
(* side (renderable.cu).  A thread per texel; a thread reads the images     *)
(* and writes its own texel only, so the kernel is one step.                 *)

\* pixels per side of the image that is copied
SurfImageSize == 2
\* the largest surface, in texels per side
MaxTextureSize == 3
\* a texel is a uint32_t: its top byte and its three low bytes
Texel(top, low) == <<top, low>>
\* what a texel holds before the copy
PriorTexels == {Texel(0, 0), Texel(0, 5)}
SurfDepths == {0, 1, SurfImageSize - 1}

\* image(px, image.size_px - py - 1) for the texel (x, y)
SourcePixel(x, y, texture_size) ==
    LET px == (x * SurfImageSize) \div texture_size
        py == (y * SurfImageSize) \div texture_size
    IN px + (SurfImageSize - py - 1) * SurfImageSize

\* 0x00FFFFFF | (((h * 255) / image.size_px) << 24)
DepthTexel(h) == Texel((h * 255) \div SurfImageSize, 16777215)

\* the branches of a copy for one texel: the value written for a pixel with
\* a depth, 0 for one without unless append is set
OverwriteTexel(old, h, value, append) ==
    IF h # 0 THEN value ELSE Texel(0, 0)
CopyTexel(old, h, value, append) ==
    IF h # 0 THEN value
    ELSE IF ~append THEN Texel(0, 0)
    ELSE old

Texels(n) == (0..(n - 1)) \X (0..(n - 1))

copyDepthToSurface(s) ==
    [t \in Texels(s.texture_size) |->
        LET h == s.image[SourcePixel(t[1], t[2], s.texture_size)]
        IN CopyTexel(s.tex[t], h, DepthTexel(h), s.append)]

copyNormalToSurface(s) ==
    [t \in Texels(s.texture_size) |->
        LET p == SourcePixel(t[1], t[2], s.texture_size)
        IN CopyTexel(s.tex[t], s.image[p], s.norm[p], s.append)]

\* Renderable2D::copyToSurface: 0xFFFFFFFF where the image is set
copyToSurface(s) ==
    [t \in Texels(s.texture_size) |->
        LET h == s.image[SourcePixel(t[1], t[2], s.texture_size)]
        IN CopyTexel(s.tex[t], h, Texel(255, 16777215), s.append)]

InitSurface ==
    /\ \E img \in [0..(SurfImageSize * SurfImageSize - 1) -> SurfDepths],
          n \in 1..MaxTextureSize, old \in PriorTexels, a \in BOOLEAN :
         surf = [phase |-> "idle", image |-> img,
                 norm |-> [p \in 0..(SurfImageSize * SurfImageSize - 1) |-> Texel(0, 100 + p)],
                 texture_size |-> n, append |-> a,
                 before |-> [t \in Texels(n) |-> old],
                 tex |-> [t \in Texels(n) |-> old], by |-> "none"]
    /\ opq = [op |-> "none", lhs |-> <<0, 0>>, rhs |-> <<0, 0>>, by |-> "none",
              v |-> <<0, 0>>, choice |-> 0, fatal |-> FALSE]
    /\ bld = NoBuild
    /\ cls = NoVerdict
    /\ spz = NoSpz
    /\ cpt = NoCompact
    /\ chb = NoChoices
    /\ geo = NoGeo
    /\ InitBlobIdle /\ InitR3dIdle

CopyDepth ==
    /\ surf.phase = "idle"
    /\ surf' = [surf EXCEPT !.phase = "copied", !.by = "depth",
                            !.tex = copyDepthToSurface(surf)]
    /\ UNCHANGED <<opq, bld, cls, spz, cpt, chb, geo, v3Vars, r3d>>

CopyNormal ==
    /\ surf.phase = "idle"
    /\ surf' = [surf EXCEPT !.phase = "copied", !.by = "normal",
                            !.tex = copyNormalToSurface(surf)]
    /\ UNCHANGED <<opq, bld, cls, spz, cpt, chb, geo, v3Vars, r3d>>

Copy2D ==
    /\ surf.phase = "idle"
    /\ surf' = [surf EXCEPT !.phase = "copied", !.by = "2d",
                            !.tex = copyToSurface(surf)]
    /\ UNCHANGED <<opq, bld, cls, spz, cpt, chb, geo, v3Vars, r3d>>

NextSurface == CopyDepth \/ CopyNormal \/ Copy2D
SpecSurface == InitSurface /\ [][NextSurface]_vars

\* what a copy writes for a pixel with a depth
WrittenTexel(p) ==
    CASE surf.by = "depth" -> DepthTexel(surf.image[p])
      [] surf.by = "normal" -> surf.norm[p]
      [] surf.by = "2d" -> Texel(255, 16777215)

\* C13: after a copy a texel whose source pixel has depth 0 holds what it
\* held before if append is set and 0 if it is not; a texel whose source
\* pixel has a depth holds the value of the copy
AppendPreserves ==
    surf.phase = "copied" =>
        \A t \in Texels(surf.texture_size) :
            LET p == SourcePixel(t[1], t[2], surf.texture_size)
            IN /\ (surf.image[p] = 0 /\ surf.append) => surf.tex[t] = surf.before[t]
               /\ (surf.image[p] = 0 /\ ~surf.append) => surf.tex[t] = Texel(0, 0)
               /\ surf.image[p] # 0 => surf.tex[t] = WrittenTexel(p)

\* an append copy that has kept a texel and has overwritten another
WitAppendPreserves ==
    /\ surf.phase = "copied" /\ surf.append
    /\ \E t, u \in Texels(surf.texture_size) :
         /\ surf.image[SourcePixel(t[1], t[2], surf.texture_size)] = 0
         /\ surf.tex[t] = Texel(0, 5)
         /\ surf.image[SourcePixel(u[1], u[2], surf.texture_size)] # 0
         /\ surf.tex[u] # surf.before[u]


-----------------------------------------------------------------------------
(* The classification of one tile                                            *)

InitClassify ==
    /\ \E root \in Intervals, hidden \in BOOLEAN, any \in BOOLEAN :
         cls = [NoVerdict EXCEPT !.phase = "ready", !.root = root,
                                 !.hidden = hidden, !.has_any_choice = any]
    /\ opq = [op |-> "none", lhs |-> <<0, 0>>, rhs |-> <<0, 0>>, by |-> "none",
              v |-> <<0, 0>>, choice |-> 0, fatal |-> FALSE]
    /\ bld = NoBuild
    /\ surf = NoSurface
    /\ spz = NoSpz
    /\ cpt = NoCompact
    /\ chb = NoChoices
    /\ geo = NoGeo
    /\ InitBlobIdle /\ InitR3dIdle

\* v3_eval_tiles_i from the end of the forward pass (v3.cu:195-217): the
\* tile is specialized if it is left active and a clause had a choice
ClassifyFused ==
    /\ cls.phase = "ready"
    /\ LET verdict == v3_verdict(cls.root, cls.hidden)
       IN cls' = [cls EXCEPT !.phase = "done", !.by = "fused", !.verdict = verdict,
                             !.specializes = (verdict = "ambiguous"
                                              /\ cls.has_any_choice)]
    /\ UNCHANGED <<opq, bld, surf, spz, cpt, chb, geo, v3Vars, r3d>>

\* TileRenderer_check and TileRenderer::check (renderable.cu:288-297,
\* 162-175): a masked tile is not checked, an active one builds its tape
ClassifyBanked ==
    /\ cls.phase = "ready"
    /\ LET verdict == IF cls.hidden THEN "masked" ELSE TileVerdict(cls.root)
       IN cls' = [cls EXCEPT !.phase = "done", !.by = "banked", !.verdict = verdict,
                             !.specializes = (verdict = "ambiguous")]
    /\ UNCHANGED <<opq, bld, surf, spz, cpt, chb, geo, v3Vars, r3d>>

NextClassify == ClassifyFused \/ ClassifyBanked
SpecClassify == InitClassify /\ [][NextClassify]_vars

\* C20: a tile that is not masked is classified Filled exactly when the
\* upper bound of its root interval is < 0, Empty exactly when the lower
\* bound is > 0, Ambiguous in every other case (a bound equal to 0 too);
\* the three exclude each other, and only a tile classified Ambiguous goes
\* on to specialization
VerdictByBounds ==
    (cls.phase = "done" /\ ~cls.hidden) =>
        /\ (cls.verdict = "filled") = (upper(cls.root) < 0)
        /\ (cls.verdict = "empty") = (lower(cls.root) > 0)
        /\ (cls.verdict = "ambiguous")
               = (~(upper(cls.root) < 0) /\ ~(lower(cls.root) > 0))
        /\ Cardinality({v \in {"filled", "empty", "ambiguous"} : cls.verdict = v}) = 1
        /\ cls.specializes => cls.verdict = "ambiguous"
\* a tile whose root interval has a bound equal to 0 has been classified
\* Ambiguous and goes on to specialization
WitVerdictByBounds ==
    /\ cls.phase = "done" /\ ~cls.hidden /\ cls.specializes
    /\ cls.verdict = "ambiguous"
    /\ (lower(cls.root) = 0 \/ upper(cls.root) = 0)


-----------------------------------------------------------------------------
(* The specialization of one tile and of one of its subtiles: a thread of   *)
(* v3_eval_tiles_i, or of TileRenderer_check and SubtileRenderer_check, on  *)
(* its own                                                                   *)

\* min(max(X - 1, Y - 3), max(Z, X) + 20): the tile drops the second max
\* without choosing in the first; the subtiles with X above 0 and Y below
\* choose X - 1
DagShadow ==
    <<NVar("VAR_X"), NConst(1), NBin("OP_SUB", 1, 2),
      NVar("VAR_Y"), NConst(3), NBin("OP_SUB", 4, 5),
      NBin("OP_MAX", 3, 6),
      NVar("VAR_Z"), NBin("OP_MAX", 8, 1), NConst(20), NBin("OP_ADD", 9, 10),
      NBin("OP_MIN", 7, 11)>>

\* max(min(X + 6, 1) - 2, min(Y - 6, 1) + 4): the first min is its constant,
\* the second its register
DagClamp ==
    <<NVar("VAR_X"), NConst(6), NBin("OP_ADD", 1, 2), NConst(1), NBin("OP_MIN", 3, 4),
      NConst(2), NBin("OP_SUB", 5, 6),
      NVar("VAR_Y"), NBin("OP_SUB", 8, 2), NBin("OP_MIN", 9, 4),
      NConst(4), NBin("OP_ADD", 10, 11),
      NBin("OP_MAX", 7, 12)>>

\* max(min(Y + 9, X), X - 2): the min is its second register, which the
\* subtraction reads after it
DagKeep ==
    <<NVar("VAR_X"), NVar("VAR_Y"), NConst(9), NBin("OP_ADD", 2, 3),
      NBin("OP_MIN", 4, 1),
      NConst(2), NBin("OP_SUB", 1, 6),
      NBin("OP_MAX", 5, 7)>>

\* min(X, Y + 20): the tile chooses X, and nothing is left to choose
DagHalf ==
    <<NVar("VAR_X"), NVar("VAR_Y"), NConst(20), NBin("OP_ADD", 2, 3),
      NBin("OP_MIN", 1, 4)>>

\* min(Y + 20, X): the tile chooses X, whose slot the min has taken over,
\* and no clause is left
DagBare ==
    <<NVar("VAR_X"), NVar("VAR_Y"), NConst(20), NBin("OP_ADD", 2, 3),
      NBin("OP_MIN", 4, 1)>>

SpzDags ==
    <<DagNested, DagSlab, DagColumn, DagStep, DagShadow, DagClamp, DagKeep, DagHalf,
      DagBare>>
SpzRoots == [d \in DOMAIN SpzDags |-> build_v3_blob(SpzDags[d])]
SpzTapes == [d \in DOMAIN SpzDags |-> TapeBuild(SpzDags[d])]

\* the kernel record of stage 0 of a first render of expression d
SpzKernel(d) ==
    LET flat == SpzRoots[d].flat
    IN [td |-> [i \in 0..(TapeWords - 1) |-> IF i < Len(flat) THEN flat[i + 1] ELSE Junk],
        ti |-> Len(flat), img |-> ZeroImage(LevelSize(0)),
        tl |-> v3_preload_tiles(Pow(Tps0, 3)),
        wk |-> [t \in 1..Pow(Tps0, 3) |-> StartThread], err |-> "none",
        claimed |-> <<>>]

InitSpecialize ==
    /\ \E d \in DOMAIN SpzDags, v \in Views, by \in {"fused", "banked"} :
         spz = [NoSpz EXCEPT !.phase = "on", !.by = by, !.d = d, !.view = v,
                             !.g = IF by = "fused" THEN SpzKernel(d) ELSE <<>>,
                             !.b = IF by = "banked" THEN BankedRunStart(NewR3d) ELSE <<>>]
    /\ opq = [op |-> "none", lhs |-> <<0, 0>>, rhs |-> <<0, 0>>, by |-> "none",
              v |-> <<0, 0>>, choice |-> 0, fatal |-> FALSE]
    /\ bld = NoBuild
    /\ surf = NoSurface
    /\ cls = NoVerdict
    /\ cpt = NoCompact
    /\ chb = NoChoices
    /\ geo = NoGeo
    /\ InitBlobIdle /\ InitR3dIdle

\* thread t of v3_eval_tiles_i evaluates and classifies its tile
SpzFusedEval(t) ==
    /\ spz.phase = "on" /\ spz.by = "fused" /\ spz.g.err = "none"
    /\ t \in DOMAIN spz.g.wk
    /\ \A u \in DOMAIN spz.g.wk : spz.g.wk[u].pc = "start"
    /\ \E junk \in JunkIntervals :
         spz' = [spz EXCEPT !.t = t,
                            !.g = TileEvalStep(spz.g, t, LevelSize(spz.stage), spz.view,
                                               junk)]
    /\ UNCHANGED <<opq, bld, surf, cls, cpt, chb, geo, v3Vars, r3d>>

\* the thread goes on: the atomicMax, or a claim and what follows it
SpzFusedStep ==
    /\ spz.phase = "on" /\ spz.by = "fused" /\ spz.g.err = "none"
    /\ spz.t \in DOMAIN spz.g.wk
    /\ spz.g.wk[spz.t].pc \in {"fill", "claim"}
    /\ \E ndebug \in BOOLEAN :
         spz' = [spz EXCEPT !.g = TileStep(spz.g, spz.t, LevelSize(spz.stage), spz.view,
                                           <<1, 1>>, ndebug)]
    /\ UNCHANGED <<opq, bld, surf, cls, cpt, chb, geo, v3Vars, r3d>>

\* the host between two stages: the tile is subdivided
SpzFusedDescend ==
    /\ spz.phase = "on" /\ spz.by = "fused" /\ spz.g.err = "none"
    /\ spz.stage < NumTileStages - 1
    /\ \A u \in DOMAIN spz.g.wk : spz.g.wk[u].pc = "done"
    /\ LET n == Len(spz.g.tl)
           act == ActiveTiles(spz.g.tl, n)
           next == v3_assign_next_nodes(spz.g.tl, n, InOrder(act))
           room == [k \in 1..(Cardinality(act) * SubCount) |-> JunkTile]
       IN spz' = [spz EXCEPT
                     !.stage = @ + 1, !.t = 0,
                     !.g = [@ EXCEPT
                              !.tl = v3_subdivide_active_tiles(next, n,
                                         LevelSize(spz.stage), room),
                              !.img = v3_copy_filled(spz.g.img,
                                          ZeroImage(LevelSize(spz.stage + 1)),
                                          LevelSize(spz.stage + 1)),
                              !.wk = [k \in DOMAIN room |-> StartThread]]]
    /\ UNCHANGED <<opq, bld, surf, cls, cpt, chb, geo, v3Vars, r3d>>

\* thread t of TileRenderer_check or SubtileRenderer_check up to the
\* classification of its tile
SpzBankedEval(t) ==
    /\ spz.phase = "on" /\ spz.by = "banked" /\ spz.b.err = "none"
    /\ t \in DOMAIN spz.b.wk
    /\ \A u \in DOMAIN spz.b.wk : spz.b.wk[u].pc = "start"
    /\ \E junk \in JunkIntervals :
         spz' = [spz EXCEPT !.t = t,
                            !.b = BankedEvalStep(spz.b, SpzTapes[spz.d], t, spz.view,
                                                 junk)]
    /\ UNCHANGED <<opq, bld, surf, cls, cpt, chb, geo, v3Vars, r3d>>

\* the thread goes on: a claim and what follows it, or an insertion
SpzBankedStep ==
    /\ spz.phase = "on" /\ spz.by = "banked" /\ spz.b.err = "none"
    /\ spz.t \in DOMAIN spz.b.wk
    /\ spz.b.wk[spz.t].pc \in {"claim", "fill", "insert"}
    /\ \E ndebug \in BOOLEAN :
         spz' = [spz EXCEPT !.b = BankedStep(spz.b, SpzTapes[spz.d], spz.t, spz.view,
                                             <<1, 1>>, ndebug)]
    /\ UNCHANGED <<opq, bld, surf, cls, cpt, chb, geo, v3Vars, r3d>>

\* the host between two levels
SpzBankedDescend ==
    /\ spz.phase = "on" /\ spz.by = "banked" /\ spz.b.err = "none"
    /\ spz.b.level < NumTileStages - 1
    /\ \A u \in DOMAIN spz.b.wk : spz.b.wk[u].pc = "done"
    /\ spz' = [spz EXCEPT !.t = 0, !.b = BankedNextLevel(spz.b)]
    /\ UNCHANGED <<opq, bld, surf, cls, cpt, chb, geo, v3Vars, r3d>>

NextSpecialize ==
    \/ \E t \in 1..SubCount : SpzFusedEval(t)
    \/ SpzFusedStep
    \/ SpzFusedDescend
    \/ \E t \in 1..SubCount : SpzBankedEval(t)
    \/ SpzBankedStep
    \/ SpzBankedDescend
SpecSpecialize == InitSpecialize /\ [][NextSpecialize]_vars

\* the threads of the kernel under way
SpzThreads ==
    IF spz.by = "fused" THEN {spz.g.wk[t] : t \in DOMAIN spz.g.wk}
    ELSE IF spz.by = "banked" THEN {spz.b.wk[t] : t \in DOMAIN spz.b.wk}
    ELSE {}

\* C21: in the backward pass of one tile evaluation every MIN/MAX clause of
\* the parent tape moves the choice index down by one, whether its output
\* slot is active or not: the clauses met backward are the clauses met
\* forward in reverse order, each leaves the index at the place where the
\* forward pass recorded the code of that clause, the index is never below
\* 0, and it is 0 at the end of the pass
ChoiceIndexReversible ==
    \A w \in {u \in SpzThreads : u.hist.passed} :
        LET h == w.hist
            n == Len(h.sites)
        IN /\ Len(h.choices) = n
           /\ Len(h.met) = n
           /\ \A k \in 1..Len(h.met) :
                 /\ h.met[k].at = h.sites[n + 1 - k]
                 /\ h.met[k].ci = n - k
                 /\ h.met[k].ci >= 0
           /\ h.ci = 0
\* a fused thread has finished a pass in which a MIN/MAX clause of an
\* inactive slot came before a MIN/MAX clause of an active one
WitChoiceIndexReversible ==
    /\ spz.by = "fused"
    /\ \E w \in SpzThreads :
         /\ w.pc = "done" /\ w.verdict = "specialized" /\ w.hist.ci = 0
         /\ \E j, k \in DOMAIN w.hist.met :
              j < k /\ ~w.hist.met[j].active /\ w.hist.met[k].active
\* the same of a banked thread
WitBankedIndexReversible ==
    /\ spz.by = "banked"
    /\ \E w \in SpzThreads :
         /\ w.pc = "done" /\ w.verdict = "ambiguous" /\ w.hist.ci = 0
         /\ \E j, k \in DOMAIN w.hist.met :
              j < k /\ ~w.hist.met[j].active /\ w.hist.met[k].active

\* the clauses of the fused tape at handle data, in the order of the forward
\* loop, and the end word it stops at
RECURSIVE TapeClauses(_, _)
TapeClauses(td, data) ==
    LET d == td[data + 1]
    IN IF d.op = OP0 THEN [cs |-> <<>>, end |-> data + 1]
       ELSE IF d.op = "GPU_OP_JUMP" THEN TapeClauses(td, data + 1 + d.imm)
       ELSE LET r == TapeClauses(td, data + 1)
            IN [r EXCEPT !.cs = <<d>> \o @]

\* the words that a pass has emitted, in the order of the tape
WordsOf(acts) ==
    LET kept == SelectSeq(acts, LAMBDA a : ~a.elide)
    IN [k \in 1..Len(kept) |-> kept[Len(kept) + 1 - k].w]

\* the tape that the thread spz.t has made for its tile
SpzMade ==
    IF spz.by = "fused" THEN TapeClauses(spz.g.td, spz.g.tl[spz.t].tape).cs
    ELSE LET h == spz.b.heads[spz.b.level][spz.b.wk[spz.t].tile].head
         IN ChainFwd(spz.b.sub, h, spz.b.sub.start[h], NUM_SUBTAPES).cs

\* the thread spz.t has finished a specialization
SpzSpecialized ==
    /\ spz.t # 0
    /\ IF spz.by = "fused"
       THEN spz.g.err = "none" /\ spz.g.wk[spz.t].verdict = "specialized"
       ELSE /\ spz.b.err = "none" /\ spz.b.wk[spz.t].verdict = "ambiguous"
            /\ spz.b.wk[spz.t].pc \in {"insert", "done"}

\* C22: in the specialization pass every clause that is handled has an
\* active output slot.  For a MIN/MAX clause among them: choice 1 activates
\* the LHS slot only and emits a copy of the LHS; choice 2 activates the RHS
\* slot only and emits a copy of the RHS, or of the constant when the second
\* operand is no register; both drop the clause when the selected slot is
\* the output slot; choice 0 activates both register operands and emits the
\* clause as it is.  The new tape holds the emitted clauses and nothing else
SpecializedByChoice ==
    /\ SpzSpecialized =>
         LET w == IF spz.by = "fused" THEN spz.g.wk[spz.t] ELSE spz.b.wk[spz.t]
         IN SpzMade = WordsOf(w.hist.acts)
    /\ \A w \in SpzThreads : \A k \in DOMAIN w.hist.acts :
        LET a == w.hist.acts[k]
            c == a.from
            rest == a.was \ {c.out}
            fused == spz.by = "fused"
            mm == IF fused THEN c.op \in HasChoiceOps ELSE c.opcode \in MinMaxOps
            lreg == IF fused THEN TRUE ELSE c.banks % 2 = 0
            rreg == IF fused THEN c.rhs # 0 ELSE c.banks \div 2 = 0
            copyL == IF fused THEN [c EXCEPT !.op = "GPU_OP_COPY_LHS"]
                     ELSE [c EXCEPT !.rhs = c.lhs, !.banks = IF lreg THEN 0 ELSE 3]
            copyR == IF fused
                     THEN [c EXCEPT !.op = IF rreg THEN "GPU_OP_COPY_RHS"
                                          ELSE "GPU_OP_COPY_IMM"]
                     ELSE [c EXCEPT !.lhs = c.rhs, !.banks = IF rreg THEN 0 ELSE 3]
        IN /\ c.out \in a.was
           /\ (mm /\ a.choice = 1) =>
                 /\ a.lit = rest \cup (IF lreg THEN {c.lhs} ELSE {})
                 /\ a.elide = (lreg /\ c.lhs = c.out)
                 /\ a.w = copyL
           /\ (mm /\ a.choice = 2) =>
                 /\ a.lit = rest \cup (IF rreg THEN {c.rhs} ELSE {})
                 /\ a.elide = (rreg /\ c.rhs = c.out)
                 /\ a.w = copyR
           /\ (mm /\ a.choice = 0) =>
                 /\ a.lit = rest \cup (IF lreg THEN {c.lhs} ELSE {})
                                 \cup (IF rreg THEN {c.rhs} ELSE {})
                 /\ ~a.elide
                 /\ a.w = c
           /\ a.choice \in {0, 1, 2}
\* the MIN/MAX clauses that the pass of thread spz.t has handled
SpzChoices ==
    IF spz.t = 0 THEN {}
    ELSE LET w == IF spz.by = "fused" THEN spz.g.wk[spz.t] ELSE spz.b.wk[spz.t]
         IN {a \in {w.hist.acts[k] : k \in DOMAIN w.hist.acts} :
                IF spz.by = "fused" THEN a.from.op \in HasChoiceOps
                ELSE a.from.opcode \in MinMaxOps}
\* a fused thread has finished a pass in which one MIN/MAX clause became a
\* copy of its constant, one was dropped for its LHS, and one was kept
WitSpecializedByChoice ==
    /\ spz.by = "fused" /\ SpzSpecialized
    /\ \E a \in SpzChoices : a.choice = 2 /\ a.w.op = "GPU_OP_COPY_IMM"
    /\ \E a \in SpzChoices : a.choice = 1 /\ a.elide
    /\ \E a \in SpzChoices : a.choice = 0 /\ a.w = a.from
\* the other cases: a fused pass has emitted a copy of the LHS register, one
\* a copy of the RHS register, and a banked pass has met the three choices
WitCopyLhs ==
    /\ spz.by = "fused" /\ SpzSpecialized
    /\ \E a \in SpzChoices : a.choice = 1 /\ ~a.elide /\ a.w.op = "GPU_OP_COPY_LHS"
WitCopyRhs ==
    /\ spz.by = "fused" /\ SpzSpecialized
    /\ \E a \in SpzChoices : a.choice = 2 /\ ~a.elide /\ a.w.op = "GPU_OP_COPY_RHS"
WitBankedChoices ==
    /\ spz.by = "banked" /\ SpzSpecialized
    /\ \E a \in SpzChoices : a.choice = 2 /\ a.from.banks \div 2 = 1
    /\ \E a \in SpzChoices : a.choice = 1 /\ a.elide
    /\ \E a \in SpzChoices : a.choice = 0

\* the clauses of the fused tape from its end word at data back, in the
\* order of the backward loop, and the start word it stops at; bad when the
\* loop leaves tape_data or goes round
RECURSIVE TapeBack(_, _, _)
TapeBack(td, data, fuel) ==
    IF data - 1 \notin DOMAIN td \/ fuel = 0
    THEN [cs |-> <<>>, start |-> data, bad |-> TRUE]
    ELSE LET d == td[data - 1]
         IN IF d.op = OP0 THEN [cs |-> <<>>, start |-> data - 1, bad |-> FALSE]
            ELSE IF d.op = "GPU_OP_JUMP" THEN TapeBack(td, data - 1 + d.imm, fuel - 1)
            ELSE LET r == TapeBack(td, data - 1, fuel - 1)
                 IN [r EXCEPT !.cs = <<d>> \o @]

\* the JUMP words of the chunks that the threads have claimed so far
SpzLinks ==
    {p \in DOMAIN spz.g.td :
        /\ \E k \in DOMAIN spz.g.claimed :
              p \in spz.g.claimed[k]..(spz.g.claimed[k] + SUBTAPE_CHUNK_SIZE - 1)
        /\ spz.g.td[p].op = "GPU_OP_JUMP"}

\* C24: once a thread has written a subtape, the forward loop from the
\* tile's handle meets exactly the emitted clauses, in the order of the
\* parent tape, and stops at the end word of the parent; the backward loop
\* from that end word meets the same clauses in reverse order and stops at
\* the start word under the handle; neither takes a JUMP word for a clause;
\* and every JUMP word leads to a JUMP word that leads back to it
ChainBothWays ==
    (spz.by = "fused" /\ SpzSpecialized) =>
        LET w == spz.g.wk[spz.t]
            head == spz.g.tl[spz.t].tape
            f == TapeClauses(spz.g.td, head)
            b == TapeBack(spz.g.td, f.end, TapeWords)
        IN /\ f.cs = WordsOf(w.hist.acts)
           /\ spz.g.td[f.end] = spz.g.td[TapeClauses(spz.g.td, w.parent).end]
           /\ ~b.bad
           /\ b.cs = Reverse(f.cs)
           /\ b.start = head
           /\ spz.g.td[head].op = OP0 /\ spz.g.td[head].ax = spz.g.td[0].ax
           /\ \A k \in DOMAIN f.cs : f.cs[k].op \notin {"GPU_OP_JUMP", "JUNK", OP0}
           /\ \A p \in SpzLinks :
                 LET q == p + spz.g.td[p].imm
                 IN /\ q \in DOMAIN spz.g.td /\ q # p
                    /\ spz.g.td[q].op = "GPU_OP_JUMP"
                    /\ q + spz.g.td[q].imm = p
\* a subtile has specialized a tape of several chunks into a tape of
\* several chunks
WitChainBothWays ==
    /\ spz.by = "fused" /\ SpzSpecialized /\ spz.stage = 1
    /\ Len(spz.g.claimed) >= 4
    /\ Cardinality(SpzLinks) >= 4

\* C25: a tile is classified Ambiguous and no MIN/MAX clause of its parent
\* tape gave a nonzero choice (fused), or the tape of its parent is terminal
\* (banked): whatever its thread does, the tile has the handle of its
\* parent, the claim counter stands, and no word of the pool changes
ReuseLeavesPool ==
    [][(spz'.phase = "on" /\ spz'.t # 0) =>
          IF spz'.by = "fused"
          THEN LET t == spz'.t
                   w == spz'.g.wk[t]
               IN (/\ w.verdict \in {"ambiguous", "specialized"}
                   /\ \A k \in DOMAIN w.hist.choices : w.hist.choices[k] = 0) =>
                      /\ spz'.g.td = spz.g.td
                      /\ spz'.g.ti = spz.g.ti
                      /\ spz'.g.claimed = spz.g.claimed
                      /\ spz'.g.tl[t].tape = spz.g.tl[t].tape
                      /\ spz'.g.tl[t].tape = w.parent
          ELSE LET t == spz'.t
                   w == spz'.b.wk[t]
                   lv == spz.b.level
               IN (/\ w.verdict \in {"ambiguous", "reused"}
                   /\ lv > 0
                   /\ spz.b.heads[lv - 1][w.parent].terminal) =>
                      /\ spz'.b.sub = spz.b.sub
                      /\ spz'.b.claimed = spz.b.claimed
                      /\ spz'.b.heads[lv][w.tile].head = spz.b.heads[lv - 1][w.parent].head
                      /\ spz'.b.heads[lv][w.tile].terminal]_vars
\* a fused subtile whose parent tape has a MIN/MAX clause has been left
\* Ambiguous without a choice
WitReuseLeavesPool ==
    /\ spz.by = "fused" /\ spz.stage = 1 /\ spz.t # 0
    /\ spz.g.wk[spz.t].pc = "done" /\ spz.g.wk[spz.t].verdict = "ambiguous"
    /\ spz.g.wk[spz.t].hist.choices # <<>>
    /\ \A k \in DOMAIN spz.g.wk[spz.t].hist.choices :
          spz.g.wk[spz.t].hist.choices[k] = 0
    /\ spz.g.tl[spz.t].tape = spz.g.wk[spz.t].parent
\* a banked subtile has taken over the terminal tape of its tile
WitBankedReuse ==
    /\ spz.by = "banked" /\ spz.t # 0 /\ spz.b.level = 1
    /\ spz.b.wk[spz.t].pc = "done" /\ spz.b.wk[spz.t].verdict = "reused"
\* a fused subtile has kept a tape without a MIN/MAX clause
WitFusedNoClause ==
    /\ spz.by = "fused" /\ spz.stage = 1 /\ spz.t # 0
    /\ spz.g.wk[spz.t].pc = "done" /\ spz.g.wk[spz.t].verdict = "ambiguous"
    /\ spz.g.wk[spz.t].hist.choices = <<>>
    /\ spz.g.wk[spz.t].parent # 0

-----------------------------------------------------------------------------
(* The kernels between two evaluation kernels with their threads and blocks *)
(* told apart: v3_assign_next_nodes thread by thread, then the host and the *)
(* kernel that fills the list of the next stage.  The list compacted is the *)
(* one a stage of eight subtiles leaves.  Threads and blocks count from 1    *)
(* and 0 as the list and the grid do: thread k has tile_index k - 1.         *)

\* threads of a block
NUM_THREADS == 3
\* at most this many tiles of the list have been classified away
MaxInactive == 2

NumBlocks(n) == (n + NUM_THREADS - 1) \div NUM_THREADS
BlockOf(k) == (k - 1) \div NUM_THREADS
BlockThreads(b, n) == {k \in 1..n : BlockOf(k) = b}

\* a faulty line 404: the offset of the block is left out
NextInBlock(local_offset, my_offset) == my_offset

\* line 404: in_tiles[tile_index].next = local_offset + my_offset
NextOf(local_offset, my_offset) == local_offset + my_offset

\* lines 376-391: the threads of the launch; those past the end of the list
\* return, thread 0 of each block has set local_offset to 0
AssignLaunch(c) ==
    [c EXCEPT !.phase = "assign",
              !.num_active_tiles = 0,
              !.pc = [k \in 1..(NumBlocks(c.count) * NUM_THREADS) |->
                         IF k > c.count THEN "out"
                         ELSE IF c.tl[k].position # -1 THEN "add" ELSE "wait"],
              !.local_offset = [b \in 0..(NumBlocks(c.count) - 1) |-> 0],
              !.my_offset = [k \in 1..(NumBlocks(c.count) * NUM_THREADS) |-> -1]]

\* lines 393-396: my_offset = atomicAdd(&local_offset, 1)
AssignAddStep(c, k) ==
    [c EXCEPT !.my_offset = [@ EXCEPT ![k] = c.local_offset[BlockOf(k)]],
              !.local_offset = [@ EXCEPT ![BlockOf(k)] = @ + 1],
              !.pc = [@ EXCEPT ![k] = "wait"]]

\* lines 399-408: thread 0 of block b adds the block's count to the global
\* counter and keeps what the counter was; then each thread of the block
\* writes the next of its own tile
AssignPublishStep(c, b) ==
    LET base == c.num_active_tiles
    IN [c EXCEPT !.num_active_tiles = @ + c.local_offset[b],
                 !.local_offset = [@ EXCEPT ![b] = base],
                 !.tl = [k \in DOMAIN c.tl |->
                            IF k \in BlockThreads(b, c.count)
                            THEN [c.tl[k] EXCEPT !.next =
                                     IF c.tl[k].position # -1
                                     THEN NextOf(base, c.my_offset[k]) ELSE -1]
                            ELSE c.tl[k]],
                 !.pc = [k \in DOMAIN c.pc |->
                            IF k \in BlockThreads(b, c.count) THEN "done" ELSE c.pc[k]]]

\* lines 1143-1160: the host reads the counter and makes room
HostRoom(c) ==
    LET num_active_tiles == IF c.last THEN c.num_active_tiles
                            ELSE c.num_active_tiles * SubCount
    IN IF num_active_tiles > Len(c.out)
       THEN [t \in 1..num_active_tiles |-> JunkTile]
       ELSE c.out

\* the threads of v3_subdivide_active_tiles that write, each with the index
\* of the record it writes
SubdivideWrites(tl, n) ==
    {<<index, tl[index \div SubCount + 1].next * SubCount + (index % SubCount)>> :
        index \in {j \in 0..(n * SubCount - 1) : tl[j \div SubCount + 1].next # -1}}
\* the threads of v3_copy_active_tiles that write
CopyWrites(tl, n) ==
    {<<k - 1, tl[k].next>> : k \in {j \in 1..n : tl[j].next # -1}}

\* who has written which record of the list
WritersOf(ws, out) == [t \in DOMAIN out |-> {w[1] : w \in {x \in ws : x[2] = t - 1}}]

\* the list of tiles that a stage leaves when the root tile had SubCount
\* subtiles and those in gone have been classified away
StageLeaves(gone) ==
    LET root == v3_assign_next_nodes(v3_preload_tiles(1), 1, <<1>>)
        subs == v3_subdivide_active_tiles(root, 1, Tps0, [t \in 1..SubCount |-> JunkTile])
    IN [k \in 1..SubCount |->
           IF k \in gone THEN [subs[k] EXCEPT !.position = -1]
           ELSE [subs[k] EXCEPT !.tape = SUBTAPE_CHUNK_SIZE * (k - 1)]]

InitCompact ==
    /\ \E gone \in {g \in SUBSET (1..SubCount) : Cardinality(g) <= MaxInactive},
          last \in BOOLEAN, size \in {0, 2 * SubCount} :
         cpt = AssignLaunch([NoCompact EXCEPT
                                !.tl = StageLeaves(gone), !.count = SubCount,
                                !.tps = LevelSize(1), !.last = last,
                                !.out = [t \in 1..size |-> JunkTile]])
    /\ opq = [op |-> "none", lhs |-> <<0, 0>>, rhs |-> <<0, 0>>, by |-> "none",
              v |-> <<0, 0>>, choice |-> 0, fatal |-> FALSE]
    /\ bld = NoBuild
    /\ surf = NoSurface
    /\ cls = NoVerdict
    /\ spz = NoSpz
    /\ chb = NoChoices
    /\ geo = NoGeo
    /\ InitBlobIdle /\ InitR3dIdle

\* a thread of v3_assign_next_nodes with an active tile takes its offset
AssignAdd(k) ==
    /\ cpt.phase = "assign"
    /\ k \in DOMAIN cpt.pc /\ cpt.pc[k] = "add"
    /\ cpt' = AssignAddStep(cpt, k)
    /\ UNCHANGED <<opq, bld, surf, cls, spz, chb, geo, v3Vars, r3d>>

\* the threads of a block have all passed the second __syncthreads
AssignPublish(b) ==
    /\ cpt.phase = "assign"
    /\ b \in DOMAIN cpt.local_offset
    /\ \A k \in BlockThreads(b, cpt.count) : cpt.pc[k] = "wait"
    /\ cpt' = AssignPublishStep(cpt, b)
    /\ UNCHANGED <<opq, bld, surf, cls, spz, chb, geo, v3Vars, r3d>>

\* lines 1162-1169: the host launches v3_subdivide_active_tiles
Subdivide ==
    /\ cpt.phase = "assign" /\ ~cpt.last
    /\ \A k \in DOMAIN cpt.pc : cpt.pc[k] \in {"done", "out"}
    /\ LET room == HostRoom(cpt)
           ws == SubdivideWrites(cpt.tl, cpt.count)
       IN IF \E w \in ws : w[2] + 1 \notin DOMAIN room
          THEN cpt' = [cpt EXCEPT !.phase = "done", !.err = "out of bounds"]
          ELSE cpt' = [cpt EXCEPT
                          !.phase = "done",
                          !.out = v3_subdivide_active_tiles(cpt.tl, cpt.count, cpt.tps,
                                                            room),
                          !.writers = WritersOf(ws, room)]
    /\ UNCHANGED <<opq, bld, surf, cls, spz, chb, geo, v3Vars, r3d>>

\* lines 1170-1178: the host launches v3_copy_active_tiles
CopyActive ==
    /\ cpt.phase = "assign" /\ cpt.last
    /\ \A k \in DOMAIN cpt.pc : cpt.pc[k] \in {"done", "out"}
    /\ LET room == HostRoom(cpt)
           ws == CopyWrites(cpt.tl, cpt.count)
           cp == v3_copy_active_tiles(cpt.tl, cpt.count, room)
       IN IF \E w \in ws : w[2] + 1 \notin DOMAIN room
          THEN cpt' = [cpt EXCEPT !.phase = "done", !.err = "out of bounds"]
          ELSE cpt' = [cpt EXCEPT !.phase = "done", !.out = cp.out, !.tl = cp.in,
                                  !.writers = WritersOf(ws, room)]
    /\ UNCHANGED <<opq, bld, surf, cls, spz, chb, geo, v3Vars, r3d>>

NextCompact ==
    \/ \E k \in 1..(NumBlocks(SubCount) * NUM_THREADS) : AssignAdd(k)
    \/ \E b \in 0..(NumBlocks(SubCount) - 1) : AssignPublish(b)
    \/ Subdivide
    \/ CopyActive
SpecCompact == InitCompact /\ [][NextCompact]_vars

\* v3_assign_next_nodes has finished and the host has not gone on
Assigned ==
    /\ cpt.phase = "assign"
    /\ \A k \in DOMAIN cpt.pc : cpt.pc[k] \in {"done", "out"}
\* the tiles of the list that are active
CptActive == {k \in 1..cpt.count : cpt.tl[k].position # -1}

\* C27: when v3_assign_next_nodes has finished, whatever the order of its
\* atomic adds, the active tiles have pairwise different next values that
\* make up 0..A-1, A the value of the counter, and every other tile has
\* next = -1; the kernel that follows writes no record outside the list of
\* the next stage, writes no record twice, and writes A * 64 records in
\* v3_subdivide_active_tiles and A in v3_copy_active_tiles
NextIsCompact ==
    /\ Assigned =>
         /\ {cpt.tl[k].next : k \in CptActive} = 0..(cpt.num_active_tiles - 1)
         /\ Cardinality(CptActive) = cpt.num_active_tiles
         /\ \A k \in 1..cpt.count : k \notin CptActive => cpt.tl[k].next = -1
    /\ cpt.phase = "done" =>
         /\ cpt.err = "none"
         /\ \A t \in DOMAIN cpt.out : Cardinality(cpt.writers[t]) <= 1
         /\ Cardinality({t \in DOMAIN cpt.out : cpt.writers[t] # {}})
               = cpt.num_active_tiles * (IF cpt.last THEN 1 ELSE SubCount)
\* the block of the first tiles has added to the counter after another one,
\* a tile has been classified away, and the list of the next stage has had
\* to grow for the records of the subtiles
WitNextIsCompact ==
    /\ cpt.phase = "done" /\ ~cpt.last /\ cpt.err = "none"
    /\ cpt.local_offset[0] > 0
    /\ CptActive # 1..cpt.count
    /\ Len(cpt.out) > 2 * SubCount
    /\ \E t \in DOMAIN cpt.out : cpt.writers[t] # {}
\* the same for the list of the voxel stage
WitCopyIsCompact ==
    /\ cpt.phase = "done" /\ cpt.last /\ cpt.err = "none"
    /\ cpt.local_offset[0] > 0
    /\ CptActive # 1..cpt.count
    /\ \E t \in DOMAIN cpt.out : cpt.writers[t] # {}

\* C28: of two active tiles handled by the same block, the one that comes
\* first in the list gets the smaller next, whatever the order of the
\* atomic adds
OrderKept ==
    Assigned =>
        \A j, k \in CptActive :
            (j < k /\ BlockOf(j) = BlockOf(k)) => cpt.tl[j].next < cpt.tl[k].next

\* the cells of the next stage inside the tile at pos
CellsOf(pos, tps) ==
    LET p == unpack(pos, tps)
        sps == tps * Subdiv
    IN {c \in 0..(sps * sps * sps - 1) :
           /\ unpack(c, sps).x \div Subdiv = p.x
           /\ unpack(c, sps).y \div Subdiv = p.y
           /\ unpack(c, sps).z \div Subdiv = p.z}
\* the records that the threads of tile k have written
ChildrenOf(k) ==
    {t \in DOMAIN cpt.out : \E index \in cpt.writers[t] : index \div SubCount = k - 1}
\* the banked pipeline at the level below a queue q of tiles, and the
\* subtiles that the threads of the i-th tile of the queue are given
BankedBelow(q) == [level |-> 2, queues |-> [lv \in {1} |-> q]]
BankedChildren(b, i) ==
    {BTileOf(b, t) : t \in ((i - 1) * SubCount + 1)..(i * SubCount)}

\* C29: v3_subdivide_active_tiles gives every active tile Subdiv^3 records,
\* one for each cell of the next stage inside the tile, each with the tape
\* of the tile and next = -1, and gives the other tiles none; records of
\* different tiles are in different cells.  The threads of
\* SubtileRenderer_check get the same cells: Subdiv^3 threads for each
\* tile of the queue, one for each cell inside it, each told its tile
SubdivisionPartitions ==
    (cpt.phase = "done" /\ ~cpt.last /\ cpt.err = "none") =>
        /\ \A k \in 1..cpt.count :
             IF k \in CptActive
             THEN /\ Cardinality(ChildrenOf(k)) = SubCount
                  /\ {cpt.out[t].position : t \in ChildrenOf(k)}
                        = CellsOf(cpt.tl[k].position, cpt.tps)
                  /\ \A t \in ChildrenOf(k) :
                        cpt.out[t].tape = cpt.tl[k].tape /\ cpt.out[t].next = -1
             ELSE ChildrenOf(k) = {}
        /\ \A j, k \in CptActive :
             j # k => \A t \in ChildrenOf(j), u \in ChildrenOf(k) :
                         cpt.out[t].position # cpt.out[u].position
        /\ LET ord == InOrder(CptActive)
               q == [i \in DOMAIN ord |-> cpt.tl[ord[i]].position]
               b == BankedBelow(q)
               cells == [i \in DOMAIN q |-> {c.tile : c \in BankedChildren(b, i)}]
           IN \A i \in DOMAIN q :
                 /\ cells[i] = CellsOf(q[i], cpt.tps)
                 /\ \A c \in BankedChildren(b, i) : c.parent = q[i]
                 /\ \A j \in DOMAIN q : j # i => cells[i] \cap cells[j] = {}
\* several tiles with different tapes have been subdivided, after a tile
\* between them was classified away, into a list that had to grow
WitSubdivisionPartitions ==
    /\ cpt.phase = "done" /\ ~cpt.last /\ cpt.err = "none"
    /\ \E j, k, l \in 1..cpt.count :
         /\ j < k /\ k < l
         /\ j \in CptActive /\ k \notin CptActive /\ l \in CptActive
         /\ cpt.tl[j].tape # cpt.tl[l].tape
         /\ ChildrenOf(j) # {} /\ ChildrenOf(l) # {}
         /\ cpt.tl[j].next > cpt.tl[l].next

-----------------------------------------------------------------------------
(* Who writes and who reads which words of tape_data while the threads of   *)
(* an evaluation kernel run in any order                                     *)

\* the words that the loops of the kernel read on the tape at handle data:
\* the start word, every clause and JUMP word, and the end word
RECURSIVE TapeSpan(_, _)
TapeSpan(td, data) ==
    LET d == td[data + 1]
    IN IF d.op = OP0 THEN {data, data + 1}
       ELSE IF d.op = "GPU_OP_JUMP"
       THEN {data, data + 1} \cup TapeSpan(td, data + 1 + d.imm)
       ELSE {data} \cup TapeSpan(td, data + 1)

ChunkWords(out_index) == out_index..(out_index + SUBTAPE_CHUNK_SIZE - 1)

\* the chunks claimed in the stages that have finished, and in this one
SealedChunks ==
    {claimed[k] : k \in 1..(IF log = <<>> THEN 0 ELSE log[Len(log)].chunks)}
StageChunks == {claimed[k] : k \in DOMAIN claimed} \ SealedChunks
\* the root tape and the chunks of the finished stages
SealedWords ==
    0..(tape_length - 1) \cup UNION {ChunkWords(c) : c \in SealedChunks}

\* the words of tape_data that a step changes
WrittenWords == {p \in DOMAIN tape_data : tape_data'[p] # tape_data[p]}

\* C26: in every interleaving of the threads of a stage, a step writes only
\* words of the chunk that its thread claims in that step and the first
\* word of the chunk that the same thread claimed before in that stage;
\* the chunks that the threads hold are pairwise different chunks of the
\* stage; the root tape and the chunks of finished stages never change;
\* and the tape that a thread is about to read lies in them, so that no
\* thread reads a word that a thread of the running kernel writes
WritesOwnChunks ==
    /\ [][(phase = "tiles" /\ phase' # "idle") =>
            /\ \A p \in WrittenWords :
                 /\ p \notin SealedWords
                 /\ \E t \in DOMAIN wk :
                      /\ wk[t].pc = "claim"
                      /\ t \in DOMAIN wk' => wk'[t] # wk[t]
                      /\ claimed' = Append(claimed, tape_index)
                      /\ \/ p \in ChunkWords(tape_index)
                         \/ wk[t].out_offset # 0 /\ p = wk[t].out_index
            /\ \A p \in SealedWords : tape_data'[p] = tape_data[p]]_vars
    /\ [](phase = "tiles" /\ err = "none" =>
            /\ \A t \in DOMAIN wk :
                 (wk[t].pc = "claim" /\ wk[t].out_offset # 0) =>
                    /\ wk[t].out_index \in StageChunks
                    /\ \A u \in DOMAIN wk :
                         (u # t /\ wk[u].pc = "claim" /\ wk[u].out_offset # 0)
                            => wk[u].out_index # wk[t].out_index
            /\ \A t \in DOMAIN wk :
                 (wk[t].pc = "start" /\ tiles[stage][t].position # -1) =>
                    TapeSpan(tape_data, tiles[stage][t].tape) \subseteq SealedWords)
\* in a stage whose tiles read chunks of the stage before, a thread has
\* filled one chunk and is to link the next one while another thread has
\* yet to read the tape of its tile
WitWritesOwnChunks ==
    /\ phase = "tiles" /\ err = "none" /\ SealedChunks # {}
    /\ \E t, u \in DOMAIN wk :
         /\ wk[t].pc = "claim" /\ wk[t].out_offset # 0
         /\ wk[u].pc = "start" /\ tiles[stage][u].position # -1
         /\ TapeSpan(tape_data, tiles[stage][u].tape) \cap
               UNION {ChunkWords(c) : c \in SealedChunks} # {}

-----------------------------------------------------------------------------
(* The choice buffer of one thread during the forward pass: an array of     *)
(* words, each with room for CodesPerWord codes of two bits.  The tape has  *)
(* chb.sites MIN/MAX clauses; the code of the k-th follows a pattern that   *)
(* the region of the tile decides.                                           *)

\* words of the buffer of v3_eval_tiles_i (128 in the program); the buffer
\* of TileRenderer_check has twice as many
ChoiceWords == 2
\* codes in a word (16 in the program)
CodesPerWord == 2
\* MIN/MAX clauses of the longest tape
MaxSites == 2 * ChoiceWords * CodesPerWord + 1

WordsOfBuffer(by) == IF by = "fused" THEN ChoiceWords ELSE 2 * ChoiceWords

\* v3.cu lines 147-154 and renderable.cu lines 154-157:
\*   choices[choice_index / 16] |= (c << ((choice_index % 16) * 2));
\*   choice_index++;
\* a store past the last word of the array goes wherever the array ends
RecordChoice(b, c) ==
    LET w == b.choice_index \div CodesPerWord
    IN IF w < WordsOfBuffer(b.by)
       THEN [b EXCEPT !.choices = [@ EXCEPT ![w] = Append(@, c)],
                      !.choice_index = @ + 1]
       ELSE [b EXCEPT !.wild = TRUE, !.choice_index = @ + 1]

InitChoices ==
    /\ \E by \in {"fused", "banked"}, n \in 0..MaxSites, sh \in 0..2 :
         chb = [NoChoices EXCEPT !.phase = "on", !.by = by, !.sites = n, !.shift = sh,
                                 !.choices = [w \in 0..(WordsOfBuffer(by) - 1) |-> <<>>]]
    /\ opq = [op |-> "none", lhs |-> <<0, 0>>, rhs |-> <<0, 0>>, by |-> "none",
              v |-> <<0, 0>>, choice |-> 0, fatal |-> FALSE]
    /\ bld = NoBuild
    /\ surf = NoSurface
    /\ cls = NoVerdict
    /\ spz = NoSpz
    /\ cpt = NoCompact
    /\ geo = NoGeo
    /\ InitBlobIdle /\ InitR3dIdle

\* the forward loop of v3_eval_tiles_i meets its next MIN/MAX clause
ChoiceFused ==
    /\ chb.phase = "on" /\ chb.by = "fused" /\ ~chb.fatal
    /\ chb.choice_index < chb.sites
    /\ chb' = RecordChoice(chb, (chb.choice_index + chb.shift) % 3)
    /\ UNCHANGED <<opq, bld, surf, cls, spz, cpt, geo, v3Vars, r3d>>

\* the loop of TileRenderer_check meets its next OP_MIN or OP_MAX clause
ChoiceBanked ==
    /\ chb.phase = "on" /\ chb.by = "banked" /\ ~chb.fatal
    /\ chb.choice_index < chb.sites
    /\ chb' = RecordChoice(chb, (chb.choice_index + chb.shift) % 3)
    /\ UNCHANGED <<opq, bld, surf, cls, spz, cpt, geo, v3Vars, r3d>>

NextChoices == ChoiceFused \/ ChoiceBanked
SpecChoices == InitChoices /\ [][NextChoices]_vars

\* C31: no choice code is stored past the end of the choice buffer, and a
\* forward pass that has met more MIN/MAX clauses than the buffer holds has
\* asserted
ChoiceOverflowAsserts ==
    chb.phase = "on" =>
        /\ ~chb.wild
        /\ chb.choice_index > WordsOfBuffer(chb.by) * CodesPerWord => chb.fatal

-----------------------------------------------------------------------------
(* The slots of the tape compilers while they are bound and released        *)

\* the clauses that read node h
Readers(dag, h) ==
    {c \in 1..Len(dag) : dag[c].op # "CONSTANT" /\ (dag[c].lhs = h \/ dag[c].rhs = h)}
\* the nodes that the compiler at work binds to a slot before node c
BoundBefore(c) ==
    {h \in DOMAIN bld.dag :
        /\ bld.dag[h].op # "CONSTANT"
        /\ \/ h < c
           \/ bld.by = "v3" /\ bld.dag[h].op \in {"VAR_X", "VAR_Y", "VAR_Z"}}
\* the mark of a node without an entry in bound_slots or bound_registers

\* C32: while a compiler is at work, a node whose slot has been released
\* has no reader among the nodes still to come; in the tape that is built,
\* no clause between the binding of a node and a reader of the node has the
\* slot of the node as its output
ReleasedAtLastReader ==
    /\ bld.phase = "loop" =>
         \A h \in BoundBefore(bld.c) :
             bld.st.bound[h] = -1 => \A r \in Readers(bld.dag, h) : r < bld.c
    /\ (bld.phase = "built" /\ ~bld.ub) =>
         \A d \in DOMAIN bld.dag : \A r \in Readers(bld.dag, d) :
             \A e \in BoundBefore(r) \ BoundBefore(1) :
                 (d \in BoundBefore(e) /\ bld.outs[d] # -1) => bld.outs[e] # bld.outs[d]

-----------------------------------------------------------------------------
(* The register operands of the clauses of build_v3_blob                    *)

\* the operands of node c that its clause reads from a slot
RegisterOperands(dag, c) ==
    IF dag[c].op \in {"CONSTANT", "VAR_X", "VAR_Y", "VAR_Z"} \cup UnsupportedOps
    THEN {}
    ELSE {h \in {dag[c].lhs, dag[c].rhs} \ {0} : dag[h].op # "CONSTANT"}

\* the word of node c in flat
ClauseAt(dag, c) == 1 + Emitted(dag, c, {"CONSTANT", "VAR_X", "VAR_Y", "VAR_Z"})

\* the slot fields of the word of node c name the slots given to its operands
NamesOperands(dag, w, outs, c) ==
    LET n == dag[c]
        l == n.lhs \in RegisterOperands(dag, c)
        r == n.rhs \in RegisterOperands(dag, c)
    IN IF l /\ r THEN w.lhs = outs[n.lhs] /\ w.rhs = outs[n.rhs]
       ELSE IF l THEN w.lhs = outs[n.lhs]
       ELSE IF r THEN IF n.op \in CommutativeOps THEN w.lhs = outs[n.rhs]
                      ELSE w.rhs = outs[n.rhs]
       ELSE TRUE

\* C33: when build_v3_blob looks up the operands of a node each of them is
\* bound to a slot, and in the tape it returns every register operand of a
\* clause is the slot of its operand node: an axis byte of the start word or
\* the out field of an earlier clause
OperandsAreBound ==
    /\ (bld.phase = "loop" /\ bld.by = "v3" /\ bld.c <= Len(bld.dag)) =>
         \A h \in RegisterOperands(bld.dag, bld.c) : bld.st.bound[h] # -1
    /\ (bld.phase = "built" /\ bld.by = "v3") =>
         \A c \in DOMAIN bld.dag :
            /\ NamesOperands(bld.dag, bld.flat[ClauseAt(bld.dag, c)], bld.outs, c)
            /\ \A h \in RegisterOperands(bld.dag, c) :
                 \/ \E i \in 1..3 : AxisNode(bld.dag, i) = h
                                    /\ bld.flat[1].ax[i] = bld.outs[h]
                 \/ /\ ClauseAt(bld.dag, h) \in 2..(ClauseAt(bld.dag, c) - 1)
                    /\ bld.flat[ClauseAt(bld.dag, h)].out = bld.outs[h]

\* a tape is returned in which a clause reads an axis and a clause reads two
\* earlier clauses, one of them read before
WitOperandsAreBound ==
    /\ bld.phase = "built" /\ bld.by = "v3" /\ ~bld.ub
    /\ \E c \in DOMAIN bld.dag : \E h \in RegisterOperands(bld.dag, c) :
          bld.dag[h].op = "VAR_X"
    /\ \E c \in DOMAIN bld.dag :
          /\ Cardinality(RegisterOperands(bld.dag, c)) = 2
          /\ \E h \in RegisterOperands(bld.dag, c) :
                /\ bld.dag[h].op \notin {"VAR_X", "VAR_Y", "VAR_Z"}
                /\ \E r \in Readers(bld.dag, h) : r < c


-----------------------------------------------------------------------------
(* free_slots and free_registers between two passes of the loop             *)

\* C35: between two passes of the loop of either compiler no slot is twice
\* in the free list and no slot in it is bound to a node, whatever the
\* operands of the clauses are
FreeListSound ==
    bld.phase = "loop" =>
        LET f == bld.st.free
        IN /\ \A i \in DOMAIN f : \A j \in DOMAIN f : i # j => f[i] # f[j]
           /\ \A h \in DOMAIN bld.dag : \A i \in DOMAIN f :
                 bld.st.bound[h] # -1 => f[i] # bld.st.bound[h]


-----------------------------------------------------------------------------
(* The slots of a tape and the slot arrays of the evaluators                *)

\* the slot fields of a word of a fused tape
SlotFields(w) == {w.lhs, w.rhs, w.out} \cup {w.ax[i] : i \in 1..3}

-----------------------------------------------------------------------------
(* The first and the last word of a tape                                     *)

\* C34: a tape returned by build_v3_blob begins with a word of opcode 0
\* and ends with a word of opcode 0 whose out field is the slot of the root
\* of the tree
EndNamesRoot ==
    (bld.phase = "built" /\ bld.by = "v3" /\ ~bld.ub) =>
        LET end == bld.flat[Len(bld.flat)]
        IN /\ bld.flat[1].op = OP0
           /\ end.op = OP0
           /\ end.out = bld.outs[Len(bld.dag)]

\* the same of the subtapes: the tape of a tile that v3_eval_tiles_i has
\* specialized begins with the start word of the root tape and ends with
\* its end word
SubtapeKeepsEnds ==
    (spz.phase = "on" /\ spz.by = "fused" /\ spz.g.err = "none") =>
        \A t \in DOMAIN spz.g.wk :
            (spz.g.wk[t].pc = "done" /\ spz.g.wk[t].verdict = "specialized") =>
                LET root == SpzRoots[spz.d].flat
                    data == spz.g.tl[t].tape
                IN /\ spz.g.td[data] = root[1]
                   /\ spz.g.td[TapeClauses(spz.g.td, data).end] = root[Len(root)]
                   /\ root[Len(root)].op = OP0 /\ root[1].op = OP0
\* a subtape has no clause left
WitSubtapeKeepsEnds ==
    /\ spz.phase = "on" /\ spz.by = "fused" /\ spz.g.err = "none"
    /\ \E t \in DOMAIN spz.g.wk :
          /\ spz.g.wk[t].pc = "done" /\ spz.g.wk[t].verdict = "specialized"
          /\ spz.g.tl[t].tape >= Len(SpzRoots[spz.d].flat)
          /\ TapeClauses(spz.g.td, spz.g.tl[t].tape).cs = <<>>


-----------------------------------------------------------------------------
(* The voxel of the normal pass: its point and its tile records              *)

\* the pixels for which v3_eval_pixels_d computes a normal once the voxel
\* stage has ended
NormalPixels ==
    IF phase = "voxels" /\ err = "none" /\ \A v \in DOMAIN wk : wk[v].pc = "done"
    THEN {p \in DOMAIN filled[NumTileStages] : filled[NumTileStages][p] # 0}
    ELSE {}

\* C38: the point that v3_eval_pixels_d computes for its voxel is the
\* point that v3_calculate_voxels computes for the same voxel
SameTransform ==
    \A p \in NormalPixels :
        LET px == p % ImageSize
            py == p \div ImageSize
            pz == filled[NumTileStages][p] + 1
        IN PixelPoint(px, py, pz, view) = VoxelPoint(px, py, pz, view)

\* C37: the voxel above the surface of a pixel lies in the volume, the
\* record of its tile lies in the array of stage 0, and so does every
\* record on the way to the tape that is picked
NormalTileInBounds ==
    \A p \in NormalPixels :
        LET px == p % ImageSize
            py == p \div ImageSize
            pz == filled[NumTileStages][p] + 1
        IN /\ pz < ImageSize
           /\ PixelTile(px, py, pz) < Pow(Tps0, 3)
           /\ PickTape(tiles, 0, PixelTile(px, py, pz), px, py, pz) # -1


-----------------------------------------------------------------------------
(* One voxel of the banked pipeline on its own: the regions that the check  *)
(* kernels give to the tiles above it (storeAxes) and the point that        *)
(* PixelRenderer::draw gives to the voxel, for a view with a centre.         *)

\* the centres of the views, in half voxels
GeoCenters == {<<0, 0, 0>>, <<1, -1, 0>>, <<0, 0, 1>>, <<0, 0, 2>>, <<-2, 2, -2>>}

InitGeometry ==
    /\ \E c \in GeoCenters : geo = [NoGeo EXCEPT !.phase = "idle", !.center = c]
    /\ opq = [op |-> "none", lhs |-> <<0, 0>>, rhs |-> <<0, 0>>, by |-> "none",
              v |-> <<0, 0>>, choice |-> 0, fatal |-> FALSE]
    /\ bld = NoBuild
    /\ surf = NoSurface
    /\ cls = NoVerdict
    /\ spz = NoSpz
    /\ cpt = NoCompact
    /\ chb = NoChoices
    /\ InitBlobIdle /\ InitR3dIdle

\* a thread of TileRenderer_check loads the region of its tile
GeoCheck ==
    /\ geo.phase = "idle"
    /\ \E t \in 1..Pow(LevelSize(0), 3) :
         LET w == BTileOf([level |-> 0, queues |-> <<>>], t)
         IN geo' = [geo EXCEPT !.phase = "tiles", !.level = 0,
                               !.queues = [l \in 0..0 |-> <<w.tile>>],
                               !.regions = <<BankedRegion(w.tile, LevelSize(0),
                                                          geo.center)>>]
    /\ UNCHANGED <<opq, bld, surf, cls, spz, cpt, chb, v3Vars, r3d>>

\* the tile is queued; a thread of SubtileRenderer_check loads the region
\* of one of its subtiles
GeoSubCheck ==
    /\ geo.phase = "tiles" /\ geo.level + 1 < NumTileStages
    /\ \E t \in 1..SubCount :
         LET lv == geo.level + 1
             w == BTileOf([level |-> lv, queues |-> geo.queues], t)
         IN geo' = [geo EXCEPT !.level = lv,
                               !.queues = [l \in 0..lv |->
                                             IF l = lv THEN <<w.tile>> ELSE geo.queues[l]],
                               !.regions = Append(@, BankedRegion(w.tile, LevelSize(lv),
                                                                  geo.center))]
    /\ UNCHANGED <<opq, bld, surf, cls, spz, cpt, chb, v3Vars, r3d>>

\* the subtile is queued; a thread of PixelRenderer_draw loads the point of
\* its voxel
GeoDraw ==
    /\ geo.phase = "tiles" /\ geo.level + 1 = NumTileStages
    /\ \E t \in 1..PixelsPerSubtile :
         LET c == BVoxelOf([queues |-> geo.queues], t)
         IN geo' = [geo EXCEPT !.phase = "pixel", !.voxel = t,
                               !.pt = BankedVoxelPoint(c, geo.center)]
    /\ UNCHANGED <<opq, bld, surf, cls, spz, cpt, chb, v3Vars, r3d>>

NextGeometry == GeoCheck \/ GeoSubCheck \/ GeoDraw
SpecGeometry == InitGeometry /\ [][NextGeometry]_vars

\* C36: the point that PixelRenderer::draw loads for a voxel lies, in X, Y
\* and Z, in the region that storeAxes loaded for each tile above the voxel
PointInRegions ==
    geo.phase = "pixel" =>
        \A k \in DOMAIN geo.regions : \A i \in 1..3 :
            /\ lower(geo.regions[k][i]) <= geo.pt[i]
            /\ geo.pt[i] <= upper(geo.regions[k][i])

=============================================================================
